---------------------------- MODULE Spec2Model ----------------------------
(***************************************************************************)
(* Model of the ChatAds n8n node (src/nodes/ChatAds/ChatAds.node.ts).      *)
(*                                                                         *)
(* Part 1: the payload builder (pure functions over JSON-like values).     *)
(* Part 2: ChatAds.execute, the bounded-concurrency dispatcher, as a state *)
(*         machine over the JavaScript event loop (one synchronous run of  *)
(*         execute, a FIFO microtask queue, one macrotask per network      *)
(*         completion).                                                    *)
(*                                                                         *)
(* JavaScript strings are modelled as sequences of one-character strings,  *)
(* so that trim() and toLowerCase() are computed character by character.   *)
(* Item indexes are 0-based as in the source.                              *)
(***************************************************************************)
EXTENDS Integers, Sequences, FiniteSets, TLC

(***************************************************************************)
(* Bounds of the model                                                     *)
(***************************************************************************)
MaxItems == 3          \* largest batch explored by Spec
MaxConcurrencyParam == 3   \* largest maxConcurrency parameter explored
MaxExtras == 2         \* largest Extra Fields object explored by BuilderSpec
MaxBodyKeys == 2       \* largest raw JSON body explored by BuilderSpec
MaxFields == 2         \* most discrete fields given together in BuilderSpec
MaxConfigItems == 2    \* largest batch explored by ConfigSpec

(***************************************************************************)
(* Strings                                                                 *)
(***************************************************************************)
UpperCaseLetters ==
    <<"A", "B", "C", "D", "E", "F", "G", "H", "I", "J", "K", "L", "M",
      "N", "O", "P", "Q", "R", "S", "T", "U", "V", "W", "X", "Y", "Z">>

LowerCaseLetters ==
    <<"a", "b", "c", "d", "e", "f", "g", "h", "i", "j", "k", "l", "m",
      "n", "o", "p", "q", "r", "s", "t", "u", "v", "w", "x", "y", "z">>

WhiteSpace == {" ", "\t", "\n", "\r"}

\* String.prototype.toLowerCase, one character
toLowerCaseChar(c) ==
    IF \E n \in 1..26 : UpperCaseLetters[n] = c
    THEN LowerCaseLetters[CHOOSE n \in 1..26 : UpperCaseLetters[n] = c]
    ELSE c

\* String.prototype.toLowerCase
toLowerCase(s) == [n \in 1..Len(s) |-> toLowerCaseChar(s[n])]

RECURSIVE trimStart(_)
trimStart(s) ==
    IF s # <<>> /\ Head(s) \in WhiteSpace THEN trimStart(Tail(s)) ELSE s

RECURSIVE trimEnd(_)
trimEnd(s) ==
    IF s # <<>> /\ s[Len(s)] \in WhiteSpace
    THEN trimEnd(SubSeq(s, 1, Len(s) - 1))
    ELSE s

\* String.prototype.trim
trim(s) == trimEnd(trimStart(s))

\* String.prototype.startsWith for a one-character prefix
startsWith(s, c) == s # <<>> /\ Head(s) = c

Digits == <<"0", "1", "2", "3", "4", "5", "6", "7", "8", "9">>

RECURSIVE NatToString(_)
NatToString(n) ==
    IF n < 10 THEN <<Digits[n + 1]>>
    ELSE NatToString(n \div 10) \o <<Digits[(n % 10) + 1]>>

\* String(value) for an integer number
NumberToString(n) == IF n < 0 THEN <<"-">> \o NatToString(0 - n) ELSE NatToString(n)

\* String(value) for a boolean
BooleanToString(b) == IF b THEN <<"t", "r", "u", "e">> ELSE <<"f", "a", "l", "s", "e">>

(***************************************************************************)
(* JSON-like values.  Every value is a record with the same fields:        *)
(*   t : the result of typeof, with "null", "array" and "undefined" told   *)
(*       apart; s : the characters of a string; n : a number; b : a        *)
(*       boolean; o : the entries of an object, in Object.entries order,   *)
(*       each [k |-> key, v |-> value];                                    *)
(*   j : for a string, what JSON.parse gives on the trimmed text:          *)
(*       "syntax" (it throws), "object" (a plain object, whose entries are *)
(*       then in o), "array", "scalar" or "null".                          *)
(***************************************************************************)
Undefined == [t |-> "undefined", s |-> <<>>, n |-> 0, b |-> FALSE, o |-> <<>>, j |-> "none"]
Null      == [t |-> "null",      s |-> <<>>, n |-> 0, b |-> FALSE, o |-> <<>>, j |-> "none"]
Str(s)    == [t |-> "string",    s |-> s,    n |-> 0, b |-> FALSE, o |-> <<>>, j |-> "syntax"]
Num(n)    == [t |-> "number",    s |-> <<>>, n |-> n, b |-> FALSE, o |-> <<>>, j |-> "none"]
Bool(b)   == [t |-> "boolean",   s |-> <<>>, n |-> 0, b |-> b,     o |-> <<>>, j |-> "none"]
Obj(o)    == [t |-> "object",    s |-> <<>>, n |-> 0, b |-> FALSE, o |-> o,    j |-> "none"]
Arr       == [t |-> "array",     s |-> <<>>, n |-> 0, b |-> FALSE, o |-> <<>>, j |-> "none"]
\* a string holding JSON text: s is the text, j and o what JSON.parse makes of it
JsonText(s, j, o) == [t |-> "string", s |-> s, n |-> 0, b |-> FALSE, o |-> o, j |-> j]

\* mutant of IsNullish: undefined and null are taken as values
IsNullish_Never(v) == FALSE

\* value === undefined || value === null
IsNullish(v) == v.t \in {"undefined", "null"}

\* mutant of IsEmptyString: the empty string is taken as a value
IsEmptyString_Never(v) == FALSE

\* value === ''
IsEmptyString(v) == v.t = "string" /\ v.s = <<>>

\* object[key] for an own or absent property
Get(obj, key) ==
    IF \E n \in 1..Len(obj) : obj[n].k = key
    THEN obj[CHOOSE n \in 1..Len(obj) : obj[n].k = key].v
    ELSE Undefined

\* object[key] = value: an existing key keeps its position, a new key goes last
Put(obj, key, value) ==
    IF \E n \in 1..Len(obj) : obj[n].k = key
    THEN [n \in 1..Len(obj) |-> IF obj[n].k = key THEN [k |-> key, v |-> value] ELSE obj[n]]
    ELSE Append(obj, [k |-> key, v |-> value])

\* Object.keys
Keys(obj) == [n \in 1..Len(obj) |-> obj[n].k]

RECURSIVE ObjectAssign(_, _)
\* Object.assign(target, source)
ObjectAssign(target, source) ==
    IF source = <<>> THEN target
    ELSE ObjectAssign(Put(target, Head(source).k, Head(source).v), Tail(source))

(***************************************************************************)
(* Field schema                                                            *)
(***************************************************************************)
\* README: `message` | string (required) | Message to analyze (1-5000 chars)
MaxMessageLength == 5000

DEFAULT_ENDPOINT ==
    <<"/", "v", "1", "/", "c", "h", "a", "t", "a", "d", "s", "/",
      "m", "e", "s", "s", "a", "g", "e", "s">>

MESSAGE == <<"m", "e", "s", "s", "a", "g", "e">>

EXTRA_FIELDS_JSON ==
    <<"e", "x", "t", "r", "a", "F", "i", "e", "l", "d", "s", "J", "s", "o", "n">>

OVERRIDE_PARSING ==
    <<"o", "v", "e", "r", "r", "i", "d", "e", "_", "p", "a", "r", "s", "i", "n", "g">>

OPTIONAL_FIELDS ==
    { <<"p", "a", "g", "e", "U", "r", "l">>,
      <<"p", "a", "g", "e", "T", "i", "t", "l", "e">>,
      <<"r", "e", "f", "e", "r", "r", "e", "r">>,
      <<"a", "d", "d", "r", "e", "s", "s">>,
      <<"e", "m", "a", "i", "l">>,
      <<"t", "y", "p", "e">>,
      <<"d", "o", "m", "a", "i", "n">>,
      <<"i", "p">>,
      <<"r", "e", "a", "s", "o", "n">>,
      <<"c", "o", "m", "p", "a", "n", "y">>,
      <<"n", "a", "m", "e">>,
      <<"c", "o", "u", "n", "t", "r", "y">>,
      <<"o", "v", "e", "r", "r", "i", "d", "e", "_", "p", "a", "r", "s", "i", "n", "g">>,
      <<"r", "e", "s", "p", "o", "n", "s", "e", "_", "q", "u", "a", "l", "i", "t", "y">> }

\* the pairs <<alias, canonical name>>
FIELD_ALIASES ==
    { <<<<"p", "a", "g", "e", "u", "r", "l">>, <<"p", "a", "g", "e", "U", "r", "l">>>>,
      <<<<"p", "a", "g", "e", "_", "u", "r", "l">>, <<"p", "a", "g", "e", "U", "r", "l">>>>,
      <<<<"p", "a", "g", "e", "t", "i", "t", "l", "e">>, <<"p", "a", "g", "e", "T", "i", "t", "l", "e">>>>,
      <<<<"p", "a", "g", "e", "_", "t", "i", "t", "l", "e">>, <<"p", "a", "g", "e", "T", "i", "t", "l", "e">>>>,
      <<<<"o", "v", "e", "r", "r", "i", "d", "e", "p", "a", "r", "s", "i", "n", "g">>,
        <<"o", "v", "e", "r", "r", "i", "d", "e", "_", "p", "a", "r", "s", "i", "n", "g">>>>,
      <<<<"o", "v", "e", "r", "r", "i", "d", "e", "_", "p", "a", "r", "s", "i", "n", "g">>,
        <<"o", "v", "e", "r", "r", "i", "d", "e", "_", "p", "a", "r", "s", "i", "n", "g">>>>,
      <<<<"r", "e", "s", "p", "o", "n", "s", "e", "q", "u", "a", "l", "i", "t", "y">>,
        <<"r", "e", "s", "p", "o", "n", "s", "e", "_", "q", "u", "a", "l", "i", "t", "y">>>>,
      <<<<"r", "e", "s", "p", "o", "n", "s", "e", "_", "q", "u", "a", "l", "i", "t", "y">>,
        <<"r", "e", "s", "p", "o", "n", "s", "e", "_", "q", "u", "a", "l", "i", "t", "y">>>> }

RESERVED_PAYLOAD_KEYS == {MESSAGE} \cup OPTIONAL_FIELDS

\* the truthiness of a value
Truthy(v) ==
    CASE v.t = "string" -> v.s # <<>>
      [] v.t = "number" -> v.n # 0
      [] v.t = "boolean" -> v.b
      [] v.t \in {"object", "array"} -> TRUE
      [] OTHER -> FALSE

RECURSIVE JSONstringify(_)
RECURSIVE JSONstringifyEntries(_, _)
\* JSON.stringify(value) for a value that has a JSON text (not undefined)
JSONstringify(v) ==
    CASE v.t = "string" -> <<"\"">> \o v.s \o <<"\"">>
      [] v.t = "number" -> NumberToString(v.n)
      [] v.t = "boolean" -> BooleanToString(v.b)
      [] v.t = "object" -> <<"{">> \o JSONstringifyEntries(v.o, TRUE) \o <<"}">>
      [] v.t = "array" -> <<"[", "]">>
      [] OTHER -> <<"n", "u", "l", "l">>

\* the members of an object, comma-separated; a member whose value is
\* undefined is left out
JSONstringifyEntries(o, first) ==
    IF o = <<>> THEN <<>>
    ELSE IF Head(o).v.t = "undefined" THEN JSONstringifyEntries(Tail(o), first)
    ELSE (IF first THEN <<>> ELSE <<",">>) \o <<"\"">> \o Head(o).k \o <<"\"", ":">> \o
         JSONstringify(Head(o).v) \o JSONstringifyEntries(Tail(o), FALSE)

(***************************************************************************)
(* Errors.  text is the fixed part of the message, source / key / keys the *)
(* parts the template interpolates.                                        *)
(***************************************************************************)
\* error.cause: absent, an Error with a message, or something that is not an
\* Error
NoCause == [kind |-> "none", text |-> ""]
ErrorCause(text) == [kind |-> "Error", text |-> text]
ObjectCause == [kind |-> "object", text |-> ""]

NoError ==
    [type |-> "none", text |-> "", source |-> "", key |-> <<>>, keys |-> <<>>,
     itemIndex |-> -1, description |-> Undefined, httpCode |-> Undefined,
     cause |-> NoCause, value |-> Undefined]

\* new NodeOperationError(node, message, { itemIndex }): no description, no
\* httpCode property, no cause
NodeOperationError(text, source, key, keys, itemIndex) ==
    [type |-> "NodeOperationError", text |-> text, source |-> source, key |-> key,
     keys |-> keys, itemIndex |-> itemIndex, description |-> Undefined,
     httpCode |-> Undefined, cause |-> NoCause, value |-> Undefined]

\* An error object the helpers reject with: type is its class ("NodeApiError"
\* or "Error").
ErrorObject(type, text, description, httpCode, cause) ==
    [type |-> type, text |-> text, source |-> "", key |-> <<>>, keys |-> <<>>,
     itemIndex |-> -1, description |-> description, httpCode |-> httpCode,
     cause |-> cause, value |-> Undefined]

\* A thrown value that is not an instance of Error.
ThrownValue(value) ==
    [type |-> "value", text |-> "", source |-> "", key |-> <<>>, keys |-> <<>>,
     itemIndex |-> -1, description |-> Undefined, httpCode |-> Undefined,
     cause |-> NoCause, value |-> value]

\* the result of a function that returns a value or throws
Return(value) == [ok |-> TRUE, value |-> value, error |-> NoError]
Throw(error) == [ok |-> FALSE, value |-> <<>>, error |-> error]

(***************************************************************************)
(* Payload builder                                                         *)
(***************************************************************************)
\* value !== null && typeof value === 'object' && !Array.isArray(value)
isPlainObject(value) == value.t = "object"

normalizeJsonPath(path) == IF startsWith(path, "/") THEN path ELSE <<"/">> \o path

\* Returns the entries of the parsed object, or throws.
parseJsonObject(value, fieldName, itemIndex) ==
    IF value.t = "string"
    THEN IF trim(value.s) = <<>> THEN Return(<<>>)
         ELSE IF value.j = "syntax"
         THEN Throw(NodeOperationError("must be valid JSON", fieldName, <<>>, <<>>, itemIndex))
         ELSE IF value.j = "object" THEN Return(value.o)
         ELSE Throw(NodeOperationError("must be a JSON object", fieldName, <<>>, <<>>, itemIndex))
    ELSE IF isPlainObject(value) THEN Return(value.o)
    ELSE Throw(NodeOperationError("must be a JSON object", fieldName, <<>>, <<>>, itemIndex))

\* mutant of coerceToString: numbers and booleans are refused
coerceToString_StringsOnly(source, key, value, itemIndex) ==
    IF value.t = "string" THEN Return(value)
    ELSE Throw(NodeOperationError("must be a string or primitive", source, key, <<>>, itemIndex))

\* mutant of coerceToString: a string is returned between quotes
coerceToString_Quoted(source, key, value, itemIndex) ==
    IF value.t = "string" THEN Return(Str(<<"'">> \o value.s \o <<"'">>))
    ELSE IF value.t = "number" THEN Return(Str(NumberToString(value.n)))
    ELSE IF value.t = "boolean" THEN Return(Str(BooleanToString(value.b)))
    ELSE Throw(NodeOperationError("must be a string or primitive", source, key, <<>>, itemIndex))

\* Returns a string value, or throws.
coerceToString(source, key, value, itemIndex) ==
    IF value.t = "string" THEN Return(value)
    ELSE IF value.t = "number" THEN Return(Str(NumberToString(value.n)))
    ELSE IF value.t = "boolean" THEN Return(Str(BooleanToString(value.b)))
    ELSE Throw(NodeOperationError("must be a string or primitive", source, key, <<>>, itemIndex))

\* mutant of ensureMessage: the test for an empty message is missing
ensureMessage_NoEmptyCheck(value, itemIndex) ==
    IF value.t # "string"
    THEN Throw(NodeOperationError("Field message must be provided as a string",
                                  "", MESSAGE, <<>>, itemIndex))
    ELSE Return(trim(value.s))

\* mutant of ensureMessage: the message is returned as given, not trimmed
ensureMessage_NoTrim(value, itemIndex) ==
    IF value.t # "string"
    THEN Throw(NodeOperationError("Field message must be provided as a string",
                                  "", MESSAGE, <<>>, itemIndex))
    ELSE IF trim(value.s) = <<>>
    THEN Throw(NodeOperationError("Field message cannot be empty", "", MESSAGE, <<>>, itemIndex))
    ELSE Return(value.s)

\* Returns the trimmed message (a character sequence), or throws.
ensureMessage(value, itemIndex) ==
    IF value.t # "string"
    THEN Throw(NodeOperationError("Field message must be provided as a string",
                                  "", MESSAGE, <<>>, itemIndex))
    ELSE IF trim(value.s) = <<>>
    THEN Throw(NodeOperationError("Field message cannot be empty", "", MESSAGE, <<>>, itemIndex))
    ELSE Return(trim(value.s))

\* FIELD_ALIASES[key.toLowerCase()] ?? key
normalizeFieldKey(key) ==
    LET lower == toLowerCase(key)
    IN IF \E a \in FIELD_ALIASES : a[1] = lower
       THEN (CHOOSE a \in FIELD_ALIASES : a[1] = lower)[2]
       ELSE key

\* mutant of normalizeOptionalField: the field keeps the spelling of the key
normalizeOptionalField_KeepsSpelling(key) ==
    IF normalizeFieldKey(key) \in OPTIONAL_FIELDS THEN key ELSE <<>>

\* mutant of normalizeOptionalField: only the canonical spelling names a field
normalizeOptionalField_ExactOnly(key) ==
    IF key \in OPTIONAL_FIELDS THEN key ELSE <<>>

\* The canonical name, or <<>> for undefined (no canonical name is empty, so
\* the truthiness test of the callers is the test against <<>>).
normalizeOptionalField(key) ==
    IF normalizeFieldKey(key) \in OPTIONAL_FIELDS THEN normalizeFieldKey(key) ELSE <<>>

\* mutant of ReservedConflicts: the keys are not normalized before the test
ReservedConflicts_NoNormalize(extras) ==
    SelectSeq(Keys(extras), LAMBDA key : key \in RESERVED_PAYLOAD_KEYS)

\* Object.keys(extras).filter(key => RESERVED_PAYLOAD_KEYS.has(normalizeFieldKey(key)))
ReservedConflicts(extras) ==
    SelectSeq(Keys(extras), LAMBDA key : normalizeFieldKey(key) \in RESERVED_PAYLOAD_KEYS)

\* mutant of assertNoReservedConflicts: the conflicts are not looked for
assertNoReservedConflicts_Skip(source, extras, itemIndex) == Return(<<>>)

\* Returns nothing, or throws the error that lists the conflicting keys.
assertNoReservedConflicts(source, extras, itemIndex) ==
    IF Len(ReservedConflicts(extras)) > 0
    THEN Throw(NodeOperationError("contains reserved keys", source, <<>>,
                                  ReservedConflicts(extras), itemIndex))
    ELSE Return(<<>>)

RECURSIVE buildPayloadLoop_NoBooleanField(_, _, _, _, _, _)
\* mutant of buildPayloadLoop: override_parsing is handled as a string field
buildPayloadLoop_NoBooleanField(input, n, payload, extras, source, itemIndex) ==
    IF n > Len(input) THEN Return([payload |-> payload, extras |-> extras])
    ELSE LET rawKey == input[n].k
             rawValue == input[n].v
             optionalKey == normalizeOptionalField(rawKey)
             coerced == coerceToString(source, rawKey, rawValue, itemIndex)
         IN IF rawKey = MESSAGE \/ IsNullish(rawValue) \/ IsEmptyString(rawValue)
            THEN buildPayloadLoop_NoBooleanField(input, n + 1, payload, extras, source,
                                                 itemIndex)
            ELSE IF optionalKey # <<>>
            THEN IF ~coerced.ok THEN Throw(coerced.error)
                 ELSE buildPayloadLoop_NoBooleanField(input, n + 1,
                                                      Put(payload, optionalKey, coerced.value),
                                                      extras, source, itemIndex)
            ELSE buildPayloadLoop_NoBooleanField(input, n + 1, payload,
                                                 Put(extras, rawKey, rawValue),
                                                 source, itemIndex)

RECURSIVE buildPayloadLoop(_, _, _, _, _, _)
\* The for loop of buildPayloadFromObject from entry n on; returns the pair
\* [payload, extras] or throws.
buildPayloadLoop(input, n, payload, extras, source, itemIndex) ==
    IF n > Len(input) THEN Return([payload |-> payload, extras |-> extras])
    ELSE LET rawKey == input[n].k
             rawValue == input[n].v
             optionalKey == normalizeOptionalField(rawKey)
             coerced == coerceToString(source, rawKey, rawValue, itemIndex)
         IN IF rawKey = MESSAGE
            THEN buildPayloadLoop(input, n + 1, payload, extras, source, itemIndex)
            ELSE IF IsNullish(rawValue) \/ IsEmptyString(rawValue)
            THEN buildPayloadLoop(input, n + 1, payload, extras, source, itemIndex)
            ELSE IF optionalKey # <<>>
            THEN IF optionalKey = OVERRIDE_PARSING
                 THEN IF rawValue.t # "boolean"
                      THEN Throw(NodeOperationError("must be a boolean", source, rawKey,
                                                    <<>>, itemIndex))
                      ELSE buildPayloadLoop(input, n + 1, Put(payload, optionalKey, rawValue),
                                            extras, source, itemIndex)
                 ELSE IF ~coerced.ok THEN Throw(coerced.error)
                      ELSE buildPayloadLoop(input, n + 1,
                                            Put(payload, optionalKey, coerced.value),
                                            extras, source, itemIndex)
            ELSE buildPayloadLoop(input, n + 1, payload, Put(extras, rawKey, rawValue),
                                  source, itemIndex)

\* Returns the sanitized payload (entries), or throws.
buildPayloadFromObject(input, source, itemIndex) ==
    LET message == ensureMessage(Get(input, MESSAGE), itemIndex)
        looped == buildPayloadLoop(input, 1, <<[k |-> MESSAGE, v |-> Str(message.value)]>>,
                                   <<>>, source, itemIndex)
        checked == assertNoReservedConflicts(source, looped.value.extras, itemIndex)
    IN IF ~message.ok THEN Throw(message.error)
       ELSE IF ~looped.ok THEN Throw(looped.error)
       ELSE IF ~checked.ok THEN Throw(checked.error)
       ELSE Return(ObjectAssign(looped.value.payload, looped.value.extras))

\* mutant of mergeExtras: the entries of the Extra Fields object are not
\* copied into the constructed object
mergeExtras_CopiesNothing(parsedExtras, n, constructed) == constructed

RECURSIVE mergeExtras(_, _, _)
\* The inner for loop of the extraFieldsJson branch from entry n on.
mergeExtras(parsedExtras, n, constructed) ==
    IF n > Len(parsedExtras) THEN constructed
    ELSE IF IsNullish(parsedExtras[n].v)
    THEN mergeExtras(parsedExtras, n + 1, constructed)
    ELSE IF parsedExtras[n].k = MESSAGE
    THEN mergeExtras(parsedExtras, n + 1, constructed)
    ELSE mergeExtras(parsedExtras, n + 1,
                     Put(constructed, parsedExtras[n].k, parsedExtras[n].v))

RECURSIVE constructLoop(_, _, _, _)
\* The for loop over additionalFields (structured mode) from entry n on;
\* returns the constructed object or throws.
constructLoop(additionalFields, n, constructed, itemIndex) ==
    IF n > Len(additionalFields) THEN Return(constructed)
    ELSE LET field == additionalFields[n].k
             value == additionalFields[n].v
             parsedExtras == parseJsonObject(value, "Extra fields JSON", itemIndex)
             checked == assertNoReservedConflicts("Extra fields JSON", parsedExtras.value,
                                                  itemIndex)
             normalizedKey == normalizeOptionalField(field)
             coerced == coerceToString("Additional fields", field, value, itemIndex)
         IN IF IsNullish(value) \/ IsEmptyString(value)
            THEN constructLoop(additionalFields, n + 1, constructed, itemIndex)
            ELSE IF field = EXTRA_FIELDS_JSON
            THEN IF ~parsedExtras.ok THEN Throw(parsedExtras.error)
                 ELSE IF ~checked.ok THEN Throw(checked.error)
                 ELSE constructLoop(additionalFields, n + 1,
                                    mergeExtras(parsedExtras.value, 1, constructed),
                                    itemIndex)
            ELSE IF normalizedKey = <<>>
            THEN Throw(NodeOperationError("is not supported", "", field, <<>>, itemIndex))
            ELSE IF normalizedKey = OVERRIDE_PARSING
            THEN IF value.t # "boolean"
                 THEN Throw(NodeOperationError("must be provided as a boolean", "", field,
                                               <<>>, itemIndex))
                 ELSE constructLoop(additionalFields, n + 1,
                                    Put(constructed, normalizedKey, value), itemIndex)
            ELSE IF ~coerced.ok THEN Throw(coerced.error)
            ELSE constructLoop(additionalFields, n + 1,
                               Put(constructed, normalizedKey, coerced.value), itemIndex)

\* An input item: the node parameters evaluated for it.
\*   operation (a TLA+ string), endpoint (characters), jsonParameters,
\*   bodyJson (a value), message (a value), additionalFields (entries)

\* The synchronous part of processItem up to the request: returns the body
\* to send, or throws.
buildBody(item, itemIndex) ==
    LET parsedBody == parseJsonObject(item.bodyJson, "Body JSON", itemIndex)
        message == ensureMessage(item.message, itemIndex)
        constructed == constructLoop(item.additionalFields, 1,
                                     <<[k |-> MESSAGE, v |-> Str(message.value)]>>, itemIndex)
    IN IF item.operation # "analyze"
       THEN Throw(NodeOperationError("Unsupported operation", "", <<>>, <<>>, itemIndex))
       ELSE IF item.jsonParameters
       THEN IF ~parsedBody.ok THEN Throw(parsedBody.error)
            ELSE buildPayloadFromObject(parsedBody.value, "Body JSON", itemIndex)
       ELSE IF ~message.ok THEN Throw(message.error)
            ELSE IF ~constructed.ok THEN Throw(constructed.error)
            ELSE buildPayloadFromObject(constructed.value, "Additional fields", itemIndex)

(***************************************************************************)
(* Error records and result records                                        *)
(***************************************************************************)
\* new NodeApiError(node, error, { itemIndex })
NodeApiError(error, itemIndex) ==
    [error EXCEPT !.type = "NodeApiError", !.itemIndex = itemIndex]

\* error.message
MessageOf(error) ==
    [text |-> error.text, source |-> error.source, key |-> error.key, keys |-> error.keys]

\* a message that is the given text, nothing interpolated
TextMessage(text) == [text |-> text, source |-> "", key |-> <<>>, keys |-> <<>>]

\* a message that is the JSON text of a value
JsonMessage(value) ==
    [text |-> "", source |-> "", key |-> JSONstringify(value), keys |-> <<>>]

\* mutant of buildErrorPayload: the index of the item is copied into the
\* payload of a node error
buildErrorPayload_WithItemIndex(error) ==
    IF error.type \in {"NodeApiError", "NodeOperationError"}
    THEN [message |-> MessageOf(error), itemIndex |-> error.itemIndex]
    ELSE IF error.type = "Error" THEN [message |-> MessageOf(error)]
    ELSE IF isPlainObject(error.value) THEN [message |-> JsonMessage(error.value)]
    ELSE [message |-> TextMessage("Unknown error")]

\* The json of an error record (lines 204-233): message, and for a node
\* error description, httpCode and cause when they are there.
buildErrorPayload(error) ==
    IF error.type \in {"NodeApiError", "NodeOperationError"}
    THEN LET description == IF Truthy(error.description)
                            THEN [description |-> error.description] ELSE <<>>
             httpCode == IF error.type = "NodeApiError" /\ Truthy(error.httpCode)
                         THEN [httpCode |-> error.httpCode] ELSE <<>>
             cause == IF error.cause.kind = "Error"
                      THEN [cause |-> error.cause.text] ELSE <<>>
         IN [message |-> MessageOf(error)] @@ description @@ httpCode @@ cause
    ELSE IF error.type = "Error" THEN [message |-> MessageOf(error)]
    ELSE IF isPlainObject(error.value) THEN [message |-> JsonMessage(error.value)]
    ELSE [message |-> TextMessage("Unknown error")]

\* responses[itemIndex] = { json: response, pairedItem: { item: itemIndex } }
SuccessRecord(response, itemIndex) == [json |-> response, pairedItem |-> itemIndex]

\* responses[itemIndex] = { json: buildErrorPayload(error), pairedItem: ... }
ErrorRecord(error, itemIndex) == [json |-> buildErrorPayload(error), pairedItem |-> itemIndex]

(***************************************************************************)
(* Batch configuration                                                     *)
(***************************************************************************)
\* A number parameter is the fraction num / den, den > 0.
Number(num, den) == [num |-> num, den |-> den]

\* A number parameter the workflow leaves unset.
NotSet == [notSet |-> TRUE]

\* this.getNodeParameter(name, 0, fallbackValue)
getNodeParameter(value, fallbackValue) ==
    IF value = NotSet THEN fallbackValue ELSE value

\* Math.floor
MathFloor(x) == x.num \div x.den

Max(a, b) == IF a >= b THEN a ELSE b
Min(a, b) == IF a <= b THEN a ELSE b

\* Math.max(5000, Math.floor(timeoutSeconds * 1000))
timeoutMs(timeoutSeconds) ==
    Max(5000, MathFloor(Number(timeoutSeconds.num * 1000, timeoutSeconds.den)))

\* mutant of concurrencyLimit: Math.min(50, ...) is missing
concurrencyLimit_NoUpperClamp(maxConcurrency) ==
    Max(1, IF MathFloor(maxConcurrency) = 0 THEN 1 ELSE MathFloor(maxConcurrency))

\* Math.max(1, Math.min(50, Math.floor(maxConcurrency) || 1))
concurrencyLimit(maxConcurrency) ==
    Max(1, Min(50, IF MathFloor(maxConcurrency) = 0 THEN 1 ELSE MathFloor(maxConcurrency)))

\* mutant of stripTrailingSlashes: .replace(/\/$/, ''), one slash only
stripTrailingSlashes_Once(s) ==
    IF s # <<>> /\ s[Len(s)] = "/" THEN SubSeq(s, 1, Len(s) - 1) ELSE s

RECURSIVE stripTrailingSlashes(_)
\* .replace(/\/+$/, '')
stripTrailingSlashes(s) ==
    IF s # <<>> /\ s[Len(s)] = "/"
    THEN stripTrailingSlashes(SubSeq(s, 1, Len(s) - 1))
    ELSE s

\* ((credentials.baseUrl as string) || '').replace(/\/+$/, '')
baseUrlOf(creds) ==
    stripTrailingSlashes(IF creds.baseUrl.t = "string" THEN creds.baseUrl.s ELSE <<>>)

\* `${baseUrl}${normalizeJsonPath(endpoint || DEFAULT_ENDPOINT)}`
urlOf(baseUrl, endpoint) ==
    baseUrl \o normalizeJsonPath(IF endpoint = <<>> THEN DEFAULT_ENDPOINT ELSE endpoint)

(***************************************************************************)
(* ChatAds.execute                                                         *)
(*                                                                         *)
(* processItem(i) returns the promise promise[i]; execPromise[i] is the    *)
(* promise processItem(i).finally(...) that is pushed on `executing`.      *)
(* `executing` holds item indexes: the entry i stands for execPromise[i].  *)
(* `awaited` is the Promise.race / Promise.all that execute is suspended   *)
(* on.  `microtasks` is the job queue of the event loop; a network         *)
(* completion is a macrotask, which runs only when execute is suspended    *)
(* (or finished) and the job queue is empty.                               *)
(***************************************************************************)
VARIABLES
    credentials,    \* what getCredentials resolves to
    params,         \* continueOnFail, maxConcurrency, timeoutSeconds
    items,          \* getInputData(): the sequence of input items
    rejections,     \* what the network calls of this run can reject with
    pc,             \* where execute is
    itemIndex,      \* the loop variable of the admission loop
    executing,      \* the outstanding set
    awaited,        \* the promise execute awaits
    microtasks,     \* the job queue
    promise,        \* the state of processItem(i)'s promise
    execPromise,    \* the state of execPromise for item i
    requests,       \* the network call of item i
    responses,      \* the result array
    result,         \* the outcome of execute
    settleLog       \* history: the items in the order their promise settled

vars ==
    <<credentials, params, items, rejections, pc, itemIndex, executing, awaited, microtasks,
      promise, execPromise, requests, responses, result, settleLog>>

inputs == <<credentials, params, items, rejections>>

\* const timeoutSeconds = this.getNodeParameter('timeoutSeconds', 0, 30)
timeoutSeconds == getNodeParameter(params.timeoutSeconds, Number(30, 1))

\* const maxConcurrency = this.getNodeParameter('maxConcurrency', 0, 4)
maxConcurrency == getNodeParameter(params.maxConcurrency, Number(4, 1))

Indexes == 0..(Len(items) - 1)

\* items[itemIndex] of the source
ItemAt(i) == items[i + 1]

NoAwait == [kind |-> "none", members |-> {}, state |-> "pending", error |-> NoError]

Job(job, item) == [job |-> job, item |-> item]

NoRequest ==
    [state |-> "none", url |-> <<>>, body |-> <<>>, timeout |-> 0, error |-> NoError]

\* The response body the endpoint returns to the call of item i: an opaque
\* value, distinct for every call.
ResponseOf(i) == [response |-> i]

\* The errors httpRequestWithAuthentication can reject with.
NetworkErrors ==
    { ErrorObject("NodeApiError", "request failed", Undefined, Null, NoCause),
      ErrorObject("Error", "timeout exceeded", Undefined, Undefined, NoCause) }

\* mutant of windowFull: the window counts as full with one task in it
windowFull_AtOne(executingNow, limit) == Len(executingNow) >= 1

\* mutant of windowFull: the window is held full one task too late
windowFull_OffByOne(executingNow, limit) == Len(executingNow) > limit

\* executing.length >= concurrencyLimit
windowFull(executingNow, limit) == Len(executingNow) >= limit

\* mutant of catchBlock: in tolerant mode the record repeats the error of an
\* item of the batch that failed before, when there is one
catchBlock_FirstErrorOfBatch(continueOnFail, error, i) ==
    IF continueOnFail
    THEN LET failedBefore == {j \in DOMAIN responses :
                                 /\ responses[j] # Undefined
                                 /\ "message" \in DOMAIN responses[j].json}
         IN [slot |-> IF failedBefore = {} THEN ErrorRecord(error, i)
                      ELSE [json |-> responses[CHOOSE j \in failedBefore : TRUE].json,
                            pairedItem |-> i],
             state |-> "fulfilled", error |-> NoError]
    ELSE [slot |-> Undefined, state |-> "rejected", error |-> NodeApiError(error, i)]

\* mutant of catchBlock: the error is re-thrown whatever continueOnFail says
catchBlock_AlwaysRethrow(continueOnFail, error, i) ==
    [slot |-> Undefined, state |-> "rejected", error |-> NodeApiError(error, i)]

\* mutant of catchBlock: in fail-fast mode the error is swallowed
catchBlock_Swallow(continueOnFail, error, i) ==
    IF continueOnFail
    THEN [slot |-> ErrorRecord(error, i), state |-> "fulfilled", error |-> NoError]
    ELSE [slot |-> Undefined, state |-> "fulfilled", error |-> NoError]

\* The catch block of processItem: the slot it writes (or Undefined) and
\* the state its promise settles in.
catchBlock(continueOnFail, error, i) ==
    IF continueOnFail
    THEN [slot |-> ErrorRecord(error, i), state |-> "fulfilled", error |-> NoError]
    ELSE [slot |-> Undefined, state |-> "rejected", error |-> NodeApiError(error, i)]

\* The callback of finally: indexOf + splice
spliceExecuting(executingNow, i) == SelectSeq(executingNow, LAMBDA e : e # i)

\* mutant of returnData: the records are returned in completion order
returnData_CompletionOrder(slots) ==
    SelectSeq([n \in 1..Len(settleLog) |-> slots[settleLog[n]]],
              LAMBDA entry : entry # Undefined)

\* responses.filter(entry => entry !== undefined)
returnData(slots) ==
    SelectSeq([n \in 1..Len(items) |-> slots[n - 1]], LAMBDA entry : entry # Undefined)

\* Promise.race(executing) / Promise.all(executing), just created.  The
\* promises on `executing` are all pending: a settled one has been spliced.
PromiseRace(executingNow) ==
    [kind |-> "race", members |-> {executingNow[n] : n \in 1..Len(executingNow)},
     state |-> "pending", error |-> NoError]

PromiseAll(executingNow) ==
    [kind |-> "all", members |-> {executingNow[n] : n \in 1..Len(executingNow)},
     state |-> IF executingNow = <<>> THEN "fulfilled" ELSE "pending", error |-> NoError]

\* mutant of React: the awaited promise misses the settlement of its members
React_Never(aw, i, state, error) == aw

\* mutant of React: Promise.all settles as Promise.race does, with the first
\* member to settle
React_AllAsRace(aw, i, state, error) ==
    IF aw.state # "pending" \/ i \notin aw.members THEN aw
    ELSE IF state = "rejected" THEN [aw EXCEPT !.state = "rejected", !.error = error]
    ELSE [aw EXCEPT !.state = "fulfilled"]

\* mutant of React: the awaited promise waits for every member and then
\* rejects with the error of the member that rejected last
React_LastRejection(aw, i, state, error) ==
    IF aw.state # "pending" \/ i \notin aw.members THEN aw
    ELSE LET err == IF state = "rejected" THEN error ELSE aw.error
         IN IF aw.members = {i}
            THEN [aw EXCEPT !.members = {}, !.error = err,
                            !.state = IF err = NoError THEN "fulfilled" ELSE "rejected"]
            ELSE [aw EXCEPT !.members = aw.members \ {i}, !.error = err]

\* mutant of React: the awaited promise waits for every member and then
\* rejects with the error of the lowest-indexed member that rejected
React_LowestIndex(aw, i, state, error) ==
    IF aw.state # "pending" \/ i \notin aw.members THEN aw
    ELSE LET err == IF state = "rejected" /\ (aw.error = NoError \/
                                              error.itemIndex < aw.error.itemIndex)
                    THEN error ELSE aw.error
         IN IF aw.members = {i}
            THEN [aw EXCEPT !.members = {}, !.error = err,
                            !.state = IF err = NoError THEN "fulfilled" ELSE "rejected"]
            ELSE [aw EXCEPT !.members = aw.members \ {i}, !.error = err]

\* The reaction of the awaited promise when execPromise[i] settles.
\* race: the first member to settle decides.  all: the first rejection
\* rejects; the fulfilment of the last member fulfils.
React(aw, i, state, error) ==
    IF aw.state # "pending" \/ i \notin aw.members THEN aw
    ELSE IF state = "rejected" THEN [aw EXCEPT !.state = "rejected", !.error = error]
    ELSE IF aw.kind = "race" THEN [aw EXCEPT !.state = "fulfilled"]
    ELSE IF aw.members = {i} THEN [aw EXCEPT !.state = "fulfilled", !.members = {}]
    ELSE [aw EXCEPT !.members = aw.members \ {i}]

(***************************************************************************)
(* Inputs                                                                  *)
(***************************************************************************)
Entry(k, v) == [k |-> k, v |-> v]

Item(operation, endpoint, jsonParameters, bodyJson, message, additionalFields) ==
    [operation |-> operation, endpoint |-> endpoint, jsonParameters |-> jsonParameters,
     bodyJson |-> bodyJson, message |-> message, additionalFields |-> additionalFields]

IP == <<"i", "p">>
NOTE == <<"n", "o", "t", "e">>
PAGE_URL_UPPER == <<"P", "A", "G", "E", "_", "U", "R", "L">>
MESSAGE_CAPITAL == <<"M", "e", "s", "s", "a", "g", "e">>
JSON_TEXT == <<"{", ".", "}">>
IP_UPPER == <<"I", "P">>
PAGE_URL == <<"p", "a", "g", "e", "U", "r", "l">>
PAGE_URL_MIXED == <<"P", "a", "g", "e", "U", "R", "L">>
PAGE_URL_SNAKE == <<"p", "a", "g", "e", "_", "u", "r", "l">>
MESSAGEANALYSIS == <<"m", "e", "s", "s", "a", "g", "e", "a", "n", "a", "l", "y", "s", "i", "s">>

\* a structured item that builds, a raw item that builds, an item that fails
ItemCatalogue ==
    { Item("analyze", <<>>, FALSE, Str(<<"{", "}">>), Str(<<" ", "h", "i", " ">>),
           <<Entry(IP, Num(7)), Entry(EXTRA_FIELDS_JSON, Obj(<<Entry(NOTE, Str(<<"n">>))>>))>>),
      Item("analyze", <<"v", "2">>, TRUE,
           Obj(<<Entry(MESSAGE, Str(<<"h", "i">>)), Entry(PAGE_URL_UPPER, Str(<<"u">>))>>),
           Str(<<>>), <<>>),
      Item("analyze", <<>>, FALSE, Str(<<"{", "}">>), Str(<<" ">>), <<>>) }

RECURSIVE SeqsUpTo(_, _)
\* the sequences over S of length at most n
SeqsUpTo(S, n) ==
    IF n = 0 THEN {<<>>}
    ELSE SeqsUpTo(S, n - 1) \cup
         {Append(q, e) : q \in {r \in SeqsUpTo(S, n - 1) : Len(r) = n - 1}, e \in S}

CredentialsSet ==
    { [present |-> FALSE, baseUrl |-> Undefined],
      [present |-> TRUE, baseUrl |-> Undefined],
      [present |-> TRUE, baseUrl |-> Str(<<>>)],
      [present |-> TRUE, baseUrl |-> Str(<<"/", "/">>)],
      [present |-> TRUE, baseUrl |-> Str(<<"h">>)],
      [present |-> TRUE, baseUrl |-> Str(<<"h", "/">>)] }

MaxConcurrencySet ==
    {Number(n, 1) : n \in 0..MaxConcurrencyParam} \cup {Number(3, 2)}

ParamsSet ==
    [continueOnFail : BOOLEAN, maxConcurrency : MaxConcurrencySet,
     timeoutSeconds : {Number(30, 1)}]

(***************************************************************************)
(* Initial state: execute has been called and has not run yet.             *)
(***************************************************************************)
Start0 ==
    /\ pc = "start"
    /\ itemIndex = 0
    /\ executing = <<>>
    /\ awaited = NoAwait
    /\ microtasks = <<>>
    /\ promise = [i \in Indexes |-> [state |-> "unstarted", error |-> NoError]]
    /\ execPromise = [i \in Indexes |-> "uncreated"]
    /\ requests = [i \in Indexes |-> NoRequest]
    /\ responses = [i \in Indexes |-> Undefined]
    /\ result = [kind |-> "running", data |-> <<>>, error |-> NoError]
    /\ settleLog = <<>>

Init ==
    /\ credentials \in CredentialsSet
    /\ params \in ParamsSet
    /\ items \in SeqsUpTo(ItemCatalogue, MaxItems)
    /\ rejections = NetworkErrors
    /\ Start0

(***************************************************************************)
(* Actions                                                                 *)
(***************************************************************************)
\* Lines 453-473: credentials, base URL, parameters, the empty arrays.
Start ==
    /\ pc = "start"
    /\ IF ~credentials.present
       THEN /\ pc' = "thrown"
            /\ result' = [kind |-> "thrown", data |-> <<>>,
                          error |-> NodeOperationError("Missing ChatAds API credentials",
                                                       "", <<>>, <<>>, -1)]
       ELSE IF baseUrlOf(credentials) = <<>>
       THEN /\ pc' = "thrown"
            /\ result' = [kind |-> "thrown", data |-> <<>>,
                          error |-> NodeOperationError("Base URL is missing in the credentials",
                                                       "", <<>>, <<>>, -1)]
       ELSE /\ pc' = "loop"
            /\ UNCHANGED result
    /\ UNCHANGED <<inputs, itemIndex, executing, awaited, microtasks, promise, execPromise,
                   requests, responses, settleLog>>

\* One iteration of the admission loop (lines 599-611): processItem(itemIndex)
\* runs synchronously up to its first await (lines 476-576, or 584-595 when
\* building the body throws), finally() registers the callback, the promise
\* is pushed, and execute either goes on or suspends on Promise.race.
Admit ==
    /\ pc = "loop"
    /\ itemIndex < Len(items)
    /\ LET i == itemIndex
           body == buildBody(ItemAt(i), i)
           caught == catchBlock(params.continueOnFail, body.error, i)
           pushed == Append(executing, i)
       IN /\ IF body.ok
             THEN /\ requests' = [requests EXCEPT ![i] =
                        [state |-> "pending",
                         url |-> urlOf(baseUrlOf(credentials), ItemAt(i).endpoint),
                         body |-> body.value,
                         timeout |-> timeoutMs(timeoutSeconds),
                         error |-> NoError]]
                  /\ promise' = [promise EXCEPT ![i].state = "pending"]
                  /\ UNCHANGED <<responses, microtasks, settleLog>>
             ELSE /\ promise' = [promise EXCEPT ![i] =
                        [state |-> caught.state, error |-> caught.error]]
                  /\ responses' = [responses EXCEPT ![i] = caught.slot]
                  /\ microtasks' = Append(microtasks, Job("finally", i))
                  /\ settleLog' = Append(settleLog, i)
                  /\ UNCHANGED requests
          /\ execPromise' = [execPromise EXCEPT ![i] = "pending"]
          /\ executing' = pushed
          /\ IF windowFull(pushed, concurrencyLimit(maxConcurrency))
             THEN /\ awaited' = PromiseRace(pushed)
                  /\ pc' = "awaitRace"
                  /\ UNCHANGED itemIndex
             ELSE /\ itemIndex' = i + 1
                  /\ UNCHANGED <<awaited, pc>>
    /\ UNCHANGED <<inputs, result>>

\* Line 614: the loop is over, execute suspends on Promise.all(executing).
AwaitAll ==
    /\ pc = "loop"
    /\ itemIndex = Len(items)
    /\ awaited' = PromiseAll(executing)
    /\ microtasks' = IF executing = <<>> THEN Append(microtasks, Job("resume", -1))
                     ELSE microtasks
    /\ pc' = "awaitAll"
    /\ UNCHANGED <<inputs, itemIndex, executing, promise, execPromise, requests, responses,
                   result, settleLog>>

\* mutant of Idle: once execute has thrown, the event loop runs nothing more
Idle_StopsOnThrow == pc \in {"awaitRace", "awaitAll", "returned"}

\* execute is suspended or over: the event loop runs jobs and macrotasks
Idle == pc \in {"awaitRace", "awaitAll", "returned", "thrown"}

\* Macrotask: the network call of item i completes, with a response or with
\* an error (transport error, non-2xx status, timeout).
NetworkCompletes ==
    /\ Idle
    /\ microtasks = <<>>
    /\ \E i \in Indexes :
          /\ requests[i].state = "pending"
          /\ \/ requests' = [requests EXCEPT ![i].state = "fulfilled"]
             \/ \E e \in rejections :
                   requests' = [requests EXCEPT ![i].state = "rejected", ![i].error = e]
          /\ microtasks' = <<Job("continuation", i)>>
    /\ UNCHANGED <<inputs, pc, itemIndex, executing, awaited, promise, execPromise,
                   responses, result, settleLog>>

\* mutant of Continuation: the task writes the slot that follows its own
Continuation_NextSlot ==
    /\ Idle
    /\ microtasks # <<>>
    /\ Head(microtasks).job = "continuation"
    /\ LET i == Head(microtasks).item
           slot == (i + 1) % Len(items)
           caught == catchBlock(params.continueOnFail, requests[i].error, i)
       IN /\ IF requests[i].state = "fulfilled"
             THEN /\ responses' = [responses EXCEPT ![slot] = SuccessRecord(ResponseOf(i), i)]
                  /\ promise' = [promise EXCEPT ![i].state = "fulfilled"]
             ELSE /\ responses' = [responses EXCEPT ![slot] =
                         IF caught.slot = Undefined THEN responses[slot] ELSE caught.slot]
                  /\ promise' = [promise EXCEPT ![i] =
                         [state |-> caught.state, error |-> caught.error]]
          /\ microtasks' = Append(Tail(microtasks), Job("finally", i))
          /\ settleLog' = Append(settleLog, i)
    /\ UNCHANGED <<inputs, pc, itemIndex, executing, awaited, execPromise, requests, result>>

\* Job: processItem(i) resumes after its await (lines 578-583, or 584-595).
Continuation ==
    /\ Idle
    /\ microtasks # <<>>
    /\ Head(microtasks).job = "continuation"
    /\ LET i == Head(microtasks).item
           caught == catchBlock(params.continueOnFail, requests[i].error, i)
       IN /\ IF requests[i].state = "fulfilled"
             THEN /\ responses' = [responses EXCEPT ![i] = SuccessRecord(ResponseOf(i), i)]
                  /\ promise' = [promise EXCEPT ![i].state = "fulfilled"]
             ELSE /\ responses' = [responses EXCEPT ![i] =
                         IF caught.slot = Undefined THEN responses[i] ELSE caught.slot]
                  /\ promise' = [promise EXCEPT ![i] =
                         [state |-> caught.state, error |-> caught.error]]
          /\ microtasks' = Append(Tail(microtasks), Job("finally", i))
          /\ settleLog' = Append(settleLog, i)
    /\ UNCHANGED <<inputs, pc, itemIndex, executing, awaited, execPromise, requests, result>>

\* Job: the callback of finally (lines 601-606) removes the promise from
\* `executing`; execPromise then settles as processItem's promise did.
FinallyCallback ==
    /\ Idle
    /\ microtasks # <<>>
    /\ Head(microtasks).job = "finally"
    /\ LET i == Head(microtasks).item
       IN /\ executing' = spliceExecuting(executing, i)
          /\ microtasks' = Append(Tail(microtasks), Job("settle", i))
    /\ UNCHANGED <<inputs, pc, itemIndex, awaited, promise, execPromise, requests,
                   responses, result, settleLog>>

\* Job: execPromise of item i settles; the awaited race / all reacts, and
\* when that settles the awaited promise, execute is scheduled to resume.
SettleExecPromise ==
    /\ Idle
    /\ microtasks # <<>>
    /\ Head(microtasks).job = "settle"
    /\ LET i == Head(microtasks).item
           reacted == React(awaited, i, promise[i].state, promise[i].error)
       IN /\ execPromise' = [execPromise EXCEPT ![i] = promise[i].state]
          /\ awaited' = reacted
          /\ microtasks' = IF awaited.state = "pending" /\ reacted.state # "pending"
                           THEN Append(Tail(microtasks), Job("resume", -1))
                           ELSE Tail(microtasks)
    /\ UNCHANGED <<inputs, pc, itemIndex, executing, promise, requests, responses, result,
                   settleLog>>

\* mutant of Resume: after the race the loop skips an item
Resume_SkipsItem ==
    /\ pc \in {"awaitRace", "awaitAll"}
    /\ microtasks # <<>>
    /\ Head(microtasks).job = "resume"
    /\ microtasks' = Tail(microtasks)
    /\ awaited' = NoAwait
    /\ IF awaited.state = "rejected"
       THEN /\ pc' = "thrown"
            /\ result' = [kind |-> "thrown", data |-> <<>>, error |-> awaited.error]
            /\ UNCHANGED itemIndex
       ELSE IF pc = "awaitRace"
       THEN /\ pc' = "loop"
            /\ itemIndex' = IF itemIndex + 2 < Len(items) THEN itemIndex + 2
                             ELSE itemIndex + 1
            /\ UNCHANGED result
       ELSE /\ pc' = "returned"
            /\ result' = [kind |-> "returned", data |-> returnData(responses),
                          error |-> NoError]
            /\ UNCHANGED itemIndex
    /\ UNCHANGED <<inputs, executing, promise, execPromise, requests, responses, settleLog>>

\* Job: execute resumes after its await.  A rejected race / all throws out
\* of execute (there is no try around lines 610 and 614); a fulfilled race
\* goes to the next iteration; a fulfilled all returns (lines 616-620).
Resume ==
    /\ pc \in {"awaitRace", "awaitAll"}
    /\ microtasks # <<>>
    /\ Head(microtasks).job = "resume"
    /\ microtasks' = Tail(microtasks)
    /\ awaited' = NoAwait
    /\ IF awaited.state = "rejected"
       THEN /\ pc' = "thrown"
            /\ result' = [kind |-> "thrown", data |-> <<>>, error |-> awaited.error]
            /\ UNCHANGED itemIndex
       ELSE IF pc = "awaitRace"
       THEN /\ pc' = "loop"
            /\ itemIndex' = itemIndex + 1
            /\ UNCHANGED result
       ELSE /\ pc' = "returned"
            /\ result' = [kind |-> "returned", data |-> returnData(responses),
                          error |-> NoError]
            /\ UNCHANGED itemIndex
    /\ UNCHANGED <<inputs, executing, promise, execPromise, requests, responses, settleLog>>

Next ==
    \/ Start
    \/ Admit
    \/ AwaitAll
    \/ NetworkCompletes
    \/ Continuation
    \/ FinallyCallback
    \/ SettleExecPromise
    \/ Resume

Spec == Init /\ [][Next]_vars

(***************************************************************************)
(* BuilderSpec: the same program on a batch of one item, the item drawn    *)
(* from a large set of structured and raw inputs.                          *)
(***************************************************************************)
\* the entries sequences over E of length at most n whose keys are distinct
ObjectsUpTo(E, n) ==
    {o \in SeqsUpTo(E, n) : \A a, b \in 1..Len(o) : a # b => o[a].k # o[b].k}

BuilderMessages == {Str(<<" ", "h", " ">>), Str(<<" ">>), Num(5)}

\* discrete fields: valid, wrong type for the boolean field, wrong type for
\* a string field, not a field of the schema
DiscreteEntries ==
    { Entry(IP, Str(<<"1">>)), Entry(OVERRIDE_PARSING, Str(<<"y">>)),
      Entry(IP, Arr), Entry(NOTE, Str(<<"n">>)) }

\* entries of an Extra Fields object: reserved keys (`message`, a canonical
\* name, an alias in upper case), keys that are not reserved, null values
ExtensionEntries ==
    { Entry(k, v) : k \in {MESSAGE, IP, PAGE_URL_UPPER, NOTE}, v \in {Str(<<"v">>), Null} }
    \cup {Entry(MESSAGE_CAPITAL, Str(<<"v">>))}

ExtensionObjects == ObjectsUpTo(ExtensionEntries, MaxExtras)

\* Extra Fields objects with an entry whose value is the empty string
EmptyStringExtensions ==
    {<<Entry(k, Str(<<>>))>> : k \in {MESSAGE, IP, NOTE}} \cup
    {<<Entry(NOTE, Str(<<>>)), Entry(MESSAGE_CAPITAL, Str(<<"v">>))>>}

\* the values a discrete field or a field of a raw body is given: strings,
\* the empty string, null, a number, the booleans, an array, an object
FieldValues ==
    { Str(<<"1">>), Str(<<>>), Null, Num(7), Bool(TRUE), Bool(FALSE), Arr, Obj(<<>>) }

\* a string field and the boolean field with every value, and an alias
FieldEntries ==
    {Entry(k, v) : k \in {IP, OVERRIDE_PARSING}, v \in FieldValues} \cup
    {Entry(PAGE_URL_UPPER, Str(<<"u">>)), Entry(PAGE_URL_UPPER, Str(<<>>))}

FieldObjects == ObjectsUpTo(FieldEntries, MaxFields)

\* Extra Fields objects with one key that is not reserved
NoteExtensions == {<<Entry(NOTE, v)>> : v \in {Str(<<"n">>), Str(<<>>), Null}}

\* the values of the extraFieldsJson parameter: an object, or a text
ExtraFieldsValues ==
    {Obj(o) : o \in ExtensionObjects \cup EmptyStringExtensions} \cup
    {JsonText(JSON_TEXT, "object", o) : o \in {r \in ExtensionObjects : Len(r) <= 1}} \cup
    { JsonText(<<"{">>, "syntax", <<>>), JsonText(<<" ">>, "syntax", <<>>),
      JsonText(<<"[", "]">>, "array", <<>>), Arr }

AdditionalFieldsSet ==
    {<<>>} \cup {<<d>> : d \in DiscreteEntries} \cup
    {<<Entry(EXTRA_FIELDS_JSON, x)>> : x \in ExtraFieldsValues} \cup
    {<<d, Entry(EXTRA_FIELDS_JSON, x)>> : d \in DiscreteEntries, x \in ExtraFieldsValues} \cup
    {<<Entry(EXTRA_FIELDS_JSON, x), d>> : d \in DiscreteEntries, x \in ExtraFieldsValues} \cup
    FieldObjects \cup
    {Append(o, Entry(EXTRA_FIELDS_JSON, Obj(x))) :
         o \in {r \in FieldObjects : Len(r) = 1}, x \in NoteExtensions}

RawEntries ==
    { Entry(MESSAGE, Str(<<" ", "h", " ">>)), Entry(MESSAGE, Str(<<" ">>)),
      Entry(MESSAGE, Num(5)), Entry(IP, Num(7)), Entry(IP, Arr),
      Entry(PAGE_URL_UPPER, Str(<<"u">>)), Entry(OVERRIDE_PARSING, Str(<<"y">>)),
      Entry(OVERRIDE_PARSING, Bool(TRUE)), Entry(NOTE, Arr), Entry(NOTE, Null) }

\* raw bodies whose keys are close to reserved keys (`Message`, `IP`), and
\* raw bodies that name the field pageUrl once or twice, under its canonical
\* name and under aliases
NamingBodies ==
    {Obj(<<Entry(MESSAGE, Str(<<" ", "h", " ">>))>> \o o) :
         o \in { <<Entry(MESSAGE_CAPITAL, Str(<<"v">>))>>,
                 <<Entry(IP_UPPER, Str(<<"v">>))>>,
                 <<Entry(PAGE_URL, Str(<<"w">>))>>,
                 <<Entry(PAGE_URL_MIXED, Str(<<"x">>))>>,
                 <<Entry(PAGE_URL_SNAKE, Str(<<"y">>))>>,
                 <<Entry(MESSAGEANALYSIS, Str(<<"v">>))>>,
                 <<Entry(PAGE_URL_UPPER, Str(<<"u">>)), Entry(PAGE_URL, Str(<<"w">>))>>,
                 <<Entry(PAGE_URL, Str(<<"w">>)), Entry(PAGE_URL_UPPER, Str(<<"u">>))>>,
                 <<Entry(PAGE_URL_UPPER, Str(<<"u">>)), Entry(PAGE_URL_MIXED, Str(<<>>))>>,
                 <<Entry(PAGE_URL_MIXED, Str(<<"x">>)), Entry(IP_UPPER, Num(7))>> }}

RawBodies ==
    NamingBodies \cup
    {Obj(o) : o \in ObjectsUpTo(RawEntries, MaxBodyKeys)} \cup
    {JsonText(JSON_TEXT, "object", o) : o \in ObjectsUpTo(RawEntries, 1)} \cup
    {Obj(<<Entry(MESSAGE, Str(<<" ", "h", " ">>))>> \o o) :
         o \in FieldObjects \cup NoteExtensions} \cup
    { JsonText(<<"{">>, "syntax", <<>>), JsonText(<<" ">>, "syntax", <<>>),
      JsonText(<<"[", "]">>, "array", <<>>), JsonText(<<"5">>, "scalar", <<>>), Arr }

BuilderItems ==
    {Item("analyze", <<>>, FALSE, Str(<<"{", "}">>), m, af) :
         m \in BuilderMessages, af \in AdditionalFieldsSet} \cup
    {Item("analyze", <<>>, TRUE, b, Str(<<>>), <<>>) : b \in RawBodies} \cup
    {Item("summarize", <<>>, FALSE, Str(<<"{", "}">>), Str(<<"h">>), <<>>)}

\* a message of n characters
LongMessage(n) == [k \in 1..n |-> "x"]

\* the message absent, of another type, blank, padded, of the documented
\* maximum length, and one character longer (padded)
MessageValues ==
    { Undefined, Null, Num(5), Bool(TRUE), Str(<<>>), Str(<<" ">>),
      Str(<<" ", "h", "i", " ">>), Str(LongMessage(MaxMessageLength)),
      Str(<<" ">> \o LongMessage(MaxMessageLength + 1) \o <<" ">>) }

\* the message values in both input modes, alone and followed by a field
MessageItems ==
    {Item("analyze", <<>>, FALSE, Str(<<"{", "}">>), m, af) :
         m \in MessageValues,
         af \in {<<>>, <<Entry(IP, Str(<<"1">>))>>, <<Entry(IP, Arr)>>}} \cup
    {Item("analyze", <<>>, TRUE,
          Obj((IF m = Undefined THEN <<>> ELSE <<Entry(MESSAGE, m)>>) \o o),
          Str(<<>>), <<>>) :
         m \in MessageValues, o \in {<<>>, <<Entry(NOTE, Arr)>>}}

\* an item that builds, in front of the item under test
LeadingItem ==
    Item("analyze", <<>>, FALSE, Str(<<"{", "}">>), Str(<<" ", "o", "k", " ">>), <<>>)

BuilderInit ==
    /\ params \in [continueOnFail : BOOLEAN, maxConcurrency : {Number(1, 1), Number(4, 1)},
                   timeoutSeconds : {Number(30, 1)}]
    /\ \/ /\ credentials = [present |-> TRUE, baseUrl |-> Str(<<"h", "/">>)]
          /\ \/ /\ params.maxConcurrency = Number(4, 1)
                /\ items \in {<<item>> : item \in BuilderItems \cup MessageItems}
             \/ items \in {<<LeadingItem, item>> : item \in MessageItems}
       \/ /\ credentials = [present |-> FALSE, baseUrl |-> Undefined]
          /\ items \in {<<item>> : item \in ItemCatalogue}
    /\ rejections = NetworkErrors
    /\ Start0

BuilderSpec == BuilderInit /\ [][Next]_vars

(***************************************************************************)
(* ConfigSpec: the same program on small batches, the two number           *)
(* parameters drawn from the values around and outside their documented     *)
(* ranges (maxConcurrency 1..50, timeoutSeconds 5..300), fractional and     *)
(* negative ones, and left unset.                                           *)
(***************************************************************************)
TimeoutSecondsSet ==
    {NotSet} \cup {Number(n, 1) : n \in {-1, 0, 4, 5, 30, 300, 301}} \cup
    {Number(9, 2), Number(601, 2)}

MaxConcurrencyValues ==
    {NotSet} \cup {Number(n, 1) : n \in {-3, 0, 1, 2, 4, 50, 51}} \cup
    {Number(1, 2), Number(-1, 2), Number(5, 2), Number(101, 2)}

\* a structured item that builds and an item that fails
ConfigItems == {item \in ItemCatalogue : ~item.jsonParameters}

ConfigInit ==
    /\ credentials = [present |-> TRUE, baseUrl |-> Str(<<"h">>)]
    /\ params \in [continueOnFail : BOOLEAN, maxConcurrency : MaxConcurrencyValues,
                   timeoutSeconds : TimeoutSecondsSet]
    /\ items \in SeqsUpTo(ConfigItems, MaxConfigItems)
    /\ rejections = NetworkErrors
    /\ Start0

ConfigSpec == ConfigInit /\ [][Next]_vars

(***************************************************************************)
(* ErrorSpec: the same program on small batches, the network calls          *)
(* rejecting with every kind of thrown value that buildErrorPayload tells   *)
(* apart: node errors with and without description, httpCode and cause,     *)
(* plain Errors, plain objects, and values that are none of these.          *)
(***************************************************************************)
STATUS_500 == <<"5", "0", "0">>

NodeErrors ==
    { ErrorObject("NodeApiError", "request failed", Str(<<"d">>), Str(STATUS_500),
                  ErrorCause("socket hang up")),
      ErrorObject("NodeApiError", "request failed", Str(<<>>), Null, ObjectCause),
      ErrorObject("NodeApiError", "", Null, Str(<<>>), NoCause),
      ErrorObject("NodeOperationError", "credentials not found", Str(<<"d">>),
                  Str(STATUS_500), NoCause) }

PlainErrors ==
    { ErrorObject("Error", "timeout exceeded", Str(<<"d">>), Str(STATUS_500),
                  ErrorCause("socket hang up")),
      ErrorObject("Error", "", Undefined, Undefined, NoCause) }

PlainObjects ==
    { ThrownValue(Obj(<<>>)),
      ThrownValue(Obj(<<Entry(<<"c">>, Num(1)), Entry(<<"u">>, Undefined),
                        Entry(MESSAGE, Str(<<"m">>))>>)) }

OtherValues ==
    { ThrownValue(Undefined), ThrownValue(Null), ThrownValue(Str(<<"m">>)),
      ThrownValue(Num(1)), ThrownValue(Arr) }

ThrownValues == NodeErrors \cup PlainErrors \cup PlainObjects \cup OtherValues

ErrorInit ==
    /\ credentials = [present |-> TRUE, baseUrl |-> Str(<<"h">>)]
    /\ params \in [continueOnFail : BOOLEAN, maxConcurrency : {Number(1, 1), NotSet},
                   timeoutSeconds : {NotSet}]
    /\ items \in SeqsUpTo(ConfigItems, MaxConfigItems)
    /\ rejections = ThrownValues
    /\ Start0

ErrorSpec == ErrorInit /\ [][Next]_vars

(***************************************************************************)
(* UrlSpec: the same program, one item after the other, on base URLs with   *)
(* and without trailing, leading and inner slashes and on endpoint          *)
(* parameters that are empty, with and without leading slash.               *)
(***************************************************************************)
BaseUrls ==
    { <<"h">>, <<"h", "/">>, <<"h", "/", "/">>, <<"/", "h">>, <<"h", "/", "h", "/">>,
      <<"/", "/">> }

Endpoints ==
    { <<>>, <<"v">>, <<"/", "v">>, <<"/", "/", "v">>, <<"v", "/">>, <<"/">> }

UrlItems ==
    {Item("analyze", endpoint, FALSE, Str(<<"{", "}">>), Str(<<"h", "i">>), <<>>) :
         endpoint \in Endpoints}

UrlInit ==
    /\ credentials \in {[present |-> TRUE, baseUrl |-> Str(url)] : url \in BaseUrls}
    /\ params \in [continueOnFail : BOOLEAN, maxConcurrency : {Number(1, 1)},
                   timeoutSeconds : {NotSet}]
    /\ items \in SeqsUpTo(UrlItems, MaxConfigItems)
    /\ rejections = {ErrorObject("Error", "timeout exceeded", Undefined, Undefined, NoCause)}
    /\ Start0

UrlSpec == UrlInit /\ [][Next]_vars

(***************************************************************************)
(* FairSpec: batches of an item that builds and an item that fails, with    *)
(* valid credentials, the limit from 1 up, at its maximum of 50 and left     *)
(* unset (the default 4), under fairness.                                   *)
(* The event loop runs every queued job, and every network call completes   *)
(* (with a response, an error, or its timeout): an enabled step is          *)
(* eventually taken.  For Admit, which is enabled exactly when the loop has *)
(* an item to admit and then always changes `executing`, weak fairness is   *)
(* written as the equivalent []<> of its guard being false.                 *)
(***************************************************************************)
FairLimits ==
    {NotSet, Number(50, 1)} \cup {Number(n, 1) : n \in 1..MaxConcurrencyParam}

FairInit ==
    /\ credentials = [present |-> TRUE, baseUrl |-> Str(<<"h">>)]
    /\ params \in [continueOnFail : BOOLEAN, maxConcurrency : FairLimits,
                   timeoutSeconds : {NotSet}]
    /\ items \in SeqsUpTo(ConfigItems, MaxItems)
    /\ rejections = NetworkErrors
    /\ Start0

\* the admission loop has an item to admit
AdmitEnabled == pc = "loop" /\ itemIndex < Len(items)

\* the steps other than Admit
OtherSteps ==
    \/ Start
    \/ AwaitAll
    \/ NetworkCompletes
    \/ Continuation
    \/ FinallyCallback
    \/ SettleExecPromise
    \/ Resume

FairSpec ==
    FairInit /\ [][Next]_vars /\ WF_vars(OtherSteps) /\ []<>~AdmitEnabled

(***************************************************************************)
(* Vocabulary of the properties                                            *)
(***************************************************************************)
Limit == concurrencyLimit(maxConcurrency)

\* the batch configuration passes the checks of lines 455-464
ConfigValid ==
    /\ credentials.present
    /\ credentials.baseUrl.t = "string"
    /\ \E n \in 1..Len(credentials.baseUrl.s) : credentials.baseUrl.s[n] # "/"

\* the network calls issued and not yet settled
InFlight == {i \in Indexes : requests[i].state = "pending"}

\* the tasks started and not yet settled
Unsettled == {i \in Indexes : promise[i].state = "pending"}

\* processItem(i) has been called
Started(i) == promise[i].state # "unstarted"

IsErrorRecord(r) == r # Undefined /\ "message" \in DOMAIN r.json
IsSuccessRecord(r) == r # Undefined /\ "response" \in DOMAIN r.json

\* item i has reached a terminal error: its task rejected (fail-fast) or
\* wrote an error record (tolerant)
Failed(i) == promise[i].state = "rejected" \/ IsErrorRecord(responses[i])

\* the message of the terminal error of a failed item
FailureMessage(i) ==
    IF promise[i].state = "rejected" THEN MessageOf(promise[i].error)
    ELSE responses[i].json.message

\* execute threw the error of an item (not a configuration error)
ThrewItemError == pc = "thrown" /\ result.error.itemIndex \in Indexes

\* this step is the one in which execute throws the error of an item
ThrowsNow == pc # "thrown" /\ pc' = "thrown" /\ result'.error.itemIndex \in Indexes

\* the items in the order their failures settled
FailureOrder == SelectSeq(settleLog, LAMBDA i : promise[i].state = "rejected")

(***************************************************************************)
(* C1 - Order preservation.  Whenever execute returns normally, the output *)
(* has one record per input item and its i-th record is the record of the  *)
(* i-th item: pairedItem.item = i, and json is the response of item i's own *)
(* call or the error record of item i's own error, whatever the order in    *)
(* which the calls completed.                                               *)
(***************************************************************************)
C1_OrderPreservation ==
    pc = "returned" =>
        /\ Len(result.data) = Len(items)
        /\ \A i \in Indexes :
              /\ result.data[i + 1].pairedItem = i
              /\ \/ /\ requests[i].state = "fulfilled"
                    /\ result.data[i + 1].json = ResponseOf(i)
                 \/ /\ requests[i].state = "rejected"
                    /\ result.data[i + 1].json = buildErrorPayload(requests[i].error)
                 \/ /\ requests[i].state = "none"
                    /\ result.data[i + 1].json = buildErrorPayload(buildBody(ItemAt(i), i).error)

\* a batch of three returned although its calls completed in the reverse of
\* the input order
C1_Witness ==
    /\ pc = "returned"
    /\ Len(items) = 3
    /\ settleLog = <<2, 1, 0>>
    /\ \A i \in Indexes : requests[i].state \in {"fulfilled", "rejected"}

(***************************************************************************)
(* C2 - Concurrency bound.  In every reachable state the number of network *)
(* calls issued and not yet settled is at most the effective limit, and the *)
(* outstanding set `executing` holds at most that many tasks.               *)
(***************************************************************************)
C2_ConcurrencyBound ==
    /\ Cardinality(InFlight) <= Limit
    /\ Len(executing) <= Limit

\* the window is full of in-flight calls while items remain to be admitted
C2_Witness ==
    /\ Limit >= 2
    /\ Cardinality(InFlight) = Limit
    /\ Len(executing) = Limit
    /\ itemIndex + 1 < Len(items)

(***************************************************************************)
(* C3 - Tolerant mode completeness.  With continue-on-fail enabled and a   *)
(* valid batch configuration, execute never throws, and when it returns it  *)
(* returns exactly one record per input item in index order: a success      *)
(* record for an item whose call succeeded, an error record for an item     *)
(* that failed validation or whose call failed; no item is dropped.         *)
(***************************************************************************)
C3_TolerantCompleteness ==
    (params.continueOnFail /\ ConfigValid) =>
        /\ pc # "thrown"
        /\ \A i \in Indexes : promise[i].state # "rejected"
        /\ pc = "returned" =>
              /\ Len(result.data) = Len(items)
              /\ \A i \in Indexes :
                    /\ result.data[i + 1].pairedItem = i
                    /\ requests[i].state = "fulfilled" => IsSuccessRecord(result.data[i + 1])
                    /\ requests[i].state # "fulfilled" => IsErrorRecord(result.data[i + 1])

\* a tolerant batch returned with a validation failure, a failed call and a
\* successful call in it
C3_Witness ==
    /\ params.continueOnFail
    /\ pc = "returned"
    /\ \E i, j, k \in Indexes :
          /\ requests[i].state = "none"
          /\ requests[j].state = "rejected"
          /\ requests[k].state = "fulfilled"

(***************************************************************************)
(* C4 - Fail-fast dichotomy.  With continue-on-fail disabled (and a valid  *)
(* configuration), execute either returns normally with exactly one success *)
(* record per item, no item having failed, or throws one error that carries *)
(* the index of an item that failed; it never returns normally when some    *)
(* item failed.                                                             *)
(***************************************************************************)
C4_FailFastDichotomy ==
    (~params.continueOnFail /\ ConfigValid) =>
        /\ pc = "returned" =>
              /\ Len(result.data) = Len(items)
              /\ \A i \in Indexes :
                    /\ ~Failed(i)
                    /\ requests[i].state = "fulfilled"
                    /\ result.data[i + 1] = SuccessRecord(ResponseOf(i), i)
        /\ pc = "thrown" =>
              /\ result.data = <<>>
              /\ result.error.itemIndex \in Indexes
              /\ Failed(result.error.itemIndex)
        /\ (\E i \in Indexes : Failed(i)) => pc # "returned"

\* a fail-fast batch threw the error of item 1 after item 0 had succeeded
C4_Witness ==
    /\ ~params.continueOnFail
    /\ pc = "thrown"
    /\ result.error.itemIndex = 1
    /\ IsSuccessRecord(responses[0])

(***************************************************************************)
(* C5 - Fail-fast drain before report.  In fail-fast mode, at the moment   *)
(* execute throws the error of an item, no admitted task is still in       *)
(* flight: all already-admitted tasks have run to completion.               *)
(***************************************************************************)
C5_DrainBeforeReport ==
    [][(ThrowsNow /\ ~params.continueOnFail) => Unsettled' = {}]_vars

(***************************************************************************)
(* C6 - Fail-fast error selection by index.  As claimed: in fail-fast      *)
(* mode, when several items of the batch end in error, the error raised is  *)
(* the one of the lowest-indexed failing item.                              *)
(***************************************************************************)
C6_LowestFailingIndexWins ==
    (~params.continueOnFail /\ ThrewItemError) =>
        \A i \in Indexes : Failed(i) => result.error.itemIndex <= i

(***************************************************************************)
(* C6, amended - in fail-fast mode the error raised is the one of the      *)
(* lowest-indexed item among the items that have failed at the moment       *)
(* execute throws.                                                          *)
(***************************************************************************)
C6_LowestIndexAmongFailedAtThrow ==
    [][(ThrowsNow /\ ~params.continueOnFail) =>
           \A i \in Indexes :
               promise'[i].state = "rejected" => result'.error.itemIndex <= i]_vars

\* execute threw the error of item 1 when items 1 and 2 had failed and the
\* call of item 0 was still in flight
C6_Witness ==
    /\ ~params.continueOnFail
    /\ pc = "thrown"
    /\ result.error.itemIndex = 1
    /\ Len(items) = 3
    /\ promise[2].state = "rejected"
    /\ promise[0].state = "pending"

(***************************************************************************)
(* C7 - Fail-fast error selection by settlement.  In fail-fast mode the    *)
(* error thrown to the caller is that of the item whose failure settled     *)
(* first in time, not necessarily the lowest index, and no record of the    *)
(* batch is returned.                                                       *)
(***************************************************************************)
C7_FirstSettledFailureWins ==
    (~params.continueOnFail /\ ThrewItemError) =>
        /\ FailureOrder # <<>>
        /\ result.error.itemIndex = FailureOrder[1]
        /\ result.error = promise[FailureOrder[1]].error
        /\ result.data = <<>>

\* execute threw the error of item 1, which failed first; item 0 failed later
C7_Witness ==
    /\ ~params.continueOnFail
    /\ pc = "thrown"
    /\ FailureOrder = <<1, 0>>
    /\ result.error.itemIndex = 1

(***************************************************************************)
(* C9 - Configuration errors are batch-fatal.  When the credentials are    *)
(* missing or the base URL is empty or made of slashes only, execute throws *)
(* before any item is processed: no task is started, no network call is     *)
(* issued and no result slot is written, in tolerant mode too.              *)
(***************************************************************************)
C9_ConfigurationErrorsAreBatchFatal ==
    ~ConfigValid =>
        /\ pc \in {"start", "thrown"}
        /\ pc = "thrown" => /\ result.error.type = "NodeOperationError"
                            /\ result.error.itemIndex \notin Indexes
                            /\ result.data = <<>>
        /\ executing = <<>>
        /\ \A i \in Indexes :
              /\ ~Started(i)
              /\ requests[i].state = "none"
              /\ responses[i] = Undefined

\* a tolerant batch of three items threw on a base URL made of slashes
C9_Witness ==
    /\ pc = "thrown"
    /\ params.continueOnFail
    /\ credentials.present
    /\ credentials.baseUrl = Str(<<"/", "/">>)
    /\ Len(items) = 3

(***************************************************************************)
(* The failure kinds of payload building, stated on the input item.        *)
(***************************************************************************)
\* not a string, or a string of white space only
BlankOrNotString(v) == v.t # "string" \/ \A n \in 1..Len(v.s) : v.s[n] \in WhiteSpace

\* '' , null or undefined: the field counts as not provided
NotProvided(v) == v.t \in {"undefined", "null"} \/ (v.t = "string" /\ Len(v.s) = 0)

\* the canonical names the key stands for: through the alias table in any
\* letter case, or itself
AliasTargets(key) ==
    LET lower == toLowerCase(key)
    IN IF \E a \in FIELD_ALIASES : a[1] = lower
       THEN {a[2] : a \in {b \in FIELD_ALIASES : b[1] = lower}}
       ELSE {key}

\* the keys that occur in the inputs, and their canonical names, computed
\* once
InputKeys ==
    {MESSAGE, EXTRA_FIELDS_JSON, OVERRIDE_PARSING, IP, NOTE, PAGE_URL_UPPER, MESSAGE_CAPITAL,
     IP_UPPER, PAGE_URL, PAGE_URL_MIXED, PAGE_URL_SNAKE, MESSAGEANALYSIS}

InputKeyNames == [key \in InputKeys |-> AliasTargets(key)]

CanonicalNames(key) ==
    IF key \in InputKeys THEN InputKeyNames[key] ELSE AliasTargets(key)

IsOptionalKey(key) == CanonicalNames(key) \cap OPTIONAL_FIELDS # {}

IsReservedKey(key) == key = MESSAGE \/ IsOptionalKey(key)

\* the value has the wrong type for the optional field the key names
WrongFieldType(key, v) ==
    IF OVERRIDE_PARSING \in CanonicalNames(key) THEN v.t # "boolean"
    ELSE v.t \notin {"string", "number", "boolean"}

\* a JSON parameter: text that does not parse, or something that is not an
\* object
MalformedJson(v) == v.t = "string" /\ ~BlankOrNotString(v) /\ v.j = "syntax"
NotAnObject(v) ==
    \/ v.t = "string" /\ ~BlankOrNotString(v) /\ v.j \notin {"syntax", "object"}
    \/ v.t \notin {"string", "object"}

\* the object a JSON parameter stands for, when it is one
ObjectOf(v) == IF v.t = "string" /\ BlankOrNotString(v) THEN <<>> ELSE v.o

RawBodyFails(bodyJson) ==
    \/ MalformedJson(bodyJson)
    \/ NotAnObject(bodyJson)
    \/ BlankOrNotString(Get(ObjectOf(bodyJson), MESSAGE))
    \/ \E n \in 1..Len(ObjectOf(bodyJson)) :
          LET e == ObjectOf(bodyJson)[n]
          IN e.k # MESSAGE /\ ~NotProvided(e.v) /\ IsOptionalKey(e.k)
             /\ WrongFieldType(e.k, e.v)

ExtensionFails(v) ==
    \/ MalformedJson(v)
    \/ NotAnObject(v)
    \/ \E n \in 1..Len(ObjectOf(v)) : IsReservedKey(ObjectOf(v)[n].k)

\* the discrete field or extension entry of a structured item is in error
FieldFails(e) ==
    /\ ~NotProvided(e.v)
    /\ IF e.k = EXTRA_FIELDS_JSON THEN ExtensionFails(e.v)
       ELSE ~IsOptionalKey(e.k) \/ WrongFieldType(e.k, e.v)

StructuredFails(item) ==
    \/ BlankOrNotString(item.message)
    \/ \E n \in 1..Len(item.additionalFields) : FieldFails(item.additionalFields[n])

FailsValidation(item) ==
    \/ item.operation # "analyze"
    \/ item.jsonParameters /\ RawBodyFails(item.bodyJson)
    \/ ~item.jsonParameters /\ StructuredFails(item)

(***************************************************************************)
(* C8 - Validation never touches the network.  For every item whose        *)
(* payload building fails (malformed JSON, non-object body, missing, empty  *)
(* or non-string message, wrong field type, unsupported discrete field,     *)
(* reserved-key conflict, unsupported operation), no network call is ever   *)
(* issued, in tolerant and in fail-fast mode.                               *)
(***************************************************************************)
C8_ValidationNeverTouchesNetwork ==
    \A i \in Indexes : requests[i].state = "none" \/ ~FailsValidation(ItemAt(i))

\* the task of an item that fails validation has run to its end
C8_Witness ==
    /\ pc \in {"returned", "thrown"}
    /\ Len(items) = 1
    /\ FailsValidation(ItemAt(0))
    /\ Failed(0)
    /\ requests[0].state = "none"

(***************************************************************************)
(* The Extra Fields object of a structured item, and its conflicts.        *)
(***************************************************************************)
\* the position of the extraFieldsJson entry that holds an object, or 0
ExtensionPosition(item) ==
    IF item.jsonParameters THEN 0
    ELSE IF \E n \in 1..Len(item.additionalFields) :
               /\ item.additionalFields[n].k = EXTRA_FIELDS_JSON
               /\ ~NotProvided(item.additionalFields[n].v)
               /\ ~MalformedJson(item.additionalFields[n].v)
               /\ ~NotAnObject(item.additionalFields[n].v)
    THEN CHOOSE n \in 1..Len(item.additionalFields) :
               item.additionalFields[n].k = EXTRA_FIELDS_JSON
    ELSE 0

ExtensionObject(item) ==
    IF ExtensionPosition(item) = 0 THEN <<>>
    ELSE ObjectOf(item.additionalFields[ExtensionPosition(item)].v)

\* the keys of the Extra Fields object that are reserved, in the object's order
ConflictingKeys(item) == SelectSeq(Keys(ExtensionObject(item)), IsReservedKey)

ReservedKeysMessage(item) ==
    [text |-> "contains reserved keys", source |-> "Extra fields JSON", key |-> <<>>,
     keys |-> ConflictingKeys(item)]

\* the operation, the message and the discrete fields that come before
\* Extra Fields are valid
ValidBeforeExtension(item) ==
    /\ item.operation = "analyze"
    /\ ~BlankOrNotString(item.message)
    /\ \A n \in 1..(ExtensionPosition(item) - 1) : ~FieldFails(item.additionalFields[n])

(***************************************************************************)
(* C10 - Reserved-key rejection.  As claimed: in structured mode, an Extra *)
(* Fields object containing a key equal to `message`, to an optional-field  *)
(* canonical name or to an alias of one in any letter case always fails the *)
(* item with a validation error whose text lists every conflicting key, and *)
(* no network call is made for the item.                                    *)
(***************************************************************************)
C10_ReservedKeyRejection ==
    \A i \in Indexes :
        (Started(i) /\ ConflictingKeys(ItemAt(i)) # <<>>) =>
            /\ requests[i].state = "none"
            /\ Failed(i)
            /\ FailureMessage(i) = ReservedKeysMessage(ItemAt(i))

(***************************************************************************)
(* C10, amended - such an item always fails with a validation error and no *)
(* network call is made for it; the error is the reserved-keys error, whose *)
(* text lists every conflicting key, when the operation, the message and    *)
(* the discrete fields that precede Extra Fields are valid (they are        *)
(* validated first, and the first error is the one reported).               *)
(***************************************************************************)
C10_ReservedKeyRejectionAmended ==
    \A i \in Indexes :
        (Started(i) /\ ConflictingKeys(ItemAt(i)) # <<>>) =>
            /\ requests[i].state = "none"
            /\ Failed(i)
            /\ FailureMessage(i).text # "request failed"
            /\ ValidBeforeExtension(ItemAt(i)) =>
                  FailureMessage(i) = ReservedKeysMessage(ItemAt(i))

\* an item with a valid discrete field followed by an Extra Fields object
\* with two conflicting keys, one of them an alias in upper case, has failed
\* with the error that lists both
C10_Witness ==
    /\ Len(items) = 1
    /\ Started(0)
    /\ Len(ConflictingKeys(ItemAt(0))) = 2
    /\ PAGE_URL_UPPER \in {ConflictingKeys(ItemAt(0))[n] : n \in 1..2}
    /\ ExtensionPosition(ItemAt(0)) = 2
    /\ Failed(0)
    /\ FailureMessage(0) = ReservedKeysMessage(ItemAt(0))

(***************************************************************************)
(* The schema source and the extension source of an item.                  *)
(***************************************************************************)
\* the entries that carry schema fields: the message parameter and the
\* discrete fields of a structured item, the reserved keys of a raw body
SchemaEntries(item) ==
    IF item.jsonParameters
    THEN SelectSeq(ObjectOf(item.bodyJson), LAMBDA e : IsReservedKey(e.k))
    ELSE <<Entry(MESSAGE, item.message)>> \o
         SelectSeq(item.additionalFields, LAMBDA e : e.k # EXTRA_FIELDS_JSON)

\* the entries of the extension source: the Extra Fields object of a
\* structured item, the non-schema keys of a raw body
ExtensionSource(item) ==
    IF item.jsonParameters
    THEN SelectSeq(ObjectOf(item.bodyJson), LAMBDA e : ~IsReservedKey(e.k))
    ELSE ExtensionObject(item)

\* the schema entries of the item, each with the canonical names its key
\* stands for
FieldTable(item) ==
    [n \in 1..Len(SchemaEntries(item)) |->
        [names |-> CanonicalNames(SchemaEntries(item)[n].k),
         v |-> SchemaEntries(item)[n].v]]

\* the positions of the schema entries that provide a value for field f
Providers(table, f) ==
    {n \in DOMAIN table : f \in table[n].names /\ ~NotProvided(table[n].v)}

\* the value given to field f: that of the last entry that provides one
GivenValue(table, f) ==
    IF Providers(table, f) = {} THEN Undefined
    ELSE table[CHOOSE n \in Providers(table, f) :
                   \A m \in Providers(table, f) : m <= n].v

\* the string a primitive value is written as
StringOf(v) ==
    IF v.t = "number" THEN Str(NumberToString(v.n))
    ELSE IF v.t = "boolean" THEN Str(BooleanToString(v.b))
    ELSE v

\* the validated value of field f: the trimmed message, the boolean of the
\* boolean field, the string of a string field
ValidatedValue(table, f) ==
    IF GivenValue(table, f) = Undefined THEN Undefined
    ELSE IF f = MESSAGE THEN Str(trim(GivenValue(table, f).s))
    ELSE IF f = OVERRIDE_PARSING THEN GivenValue(table, f)
    ELSE StringOf(GivenValue(table, f))

(***************************************************************************)
(* C11 - Sanitized payload.  In every payload sent, the value under        *)
(* `message` and under each canonical optional-field name is the validated *)
(* value of that field (absent when the field is not provided); every other *)
(* key of the payload is a key of the extension source that is not          *)
(* reserved, with the value the extension source gives it; no key appears   *)
(* twice.  So no entry of the extension source supplies or overwrites the   *)
(* value of a reserved key.                                                 *)
(***************************************************************************)
C11_SanitizedPayload ==
    \A i \in Indexes :
        requests[i].state # "none" =>
            LET payload == requests[i].body
                table == FieldTable(ItemAt(i))
                extension == ExtensionSource(ItemAt(i))
            IN /\ \A f \in RESERVED_PAYLOAD_KEYS :
                      Get(payload, f) = ValidatedValue(table, f)
               /\ \A n \in 1..Len(payload) :
                      \/ payload[n].k \in RESERVED_PAYLOAD_KEYS
                      \/ /\ ~IsReservedKey(payload[n].k)
                         /\ \E m \in 1..Len(extension) : extension[m] = payload[n]
               /\ \A n, m \in 1..Len(payload) :
                      n # m => payload[n].k # payload[m].k

\* a structured item with a discrete field given as a number and an Extra
\* Fields object with a key that is not reserved has been sent: the payload
\* holds the trimmed message, the field as a string and the extension entry
C11_Witness ==
    /\ requests[0].state # "none"
    /\ ~ItemAt(0).jsonParameters
    /\ GivenValue(FieldTable(ItemAt(0)), IP) = Num(7)
    /\ Get(requests[0].body, IP) = Str(<<"7">>)
    /\ Get(requests[0].body, MESSAGE) = Str(<<"h">>)
    /\ ExtensionSource(ItemAt(0)) = <<Entry(NOTE, Str(<<"n">>))>>
    /\ Get(requests[0].body, NOTE) = Str(<<"n">>)

(***************************************************************************)
(* C12 - Message validation.  In both input modes, an item whose message   *)
(* is absent, not a string, or empty after trimming is not sent and fails   *)
(* with a validation error attributed to the index of that item: the error  *)
(* of the message, whenever the operation is supported and a raw body is an *)
(* object.  Otherwise the `message` of the payload sent for the item is the *)
(* input message trimmed.                                                   *)
(***************************************************************************)
\* the message the item gives
MessageGiven(item) ==
    IF item.jsonParameters THEN Get(ObjectOf(item.bodyJson), MESSAGE) ELSE item.message

\* the operation is supported and a raw body is an object
MessageIsLookedAt(item) ==
    /\ item.operation = "analyze"
    /\ item.jsonParameters => ~MalformedJson(item.bodyJson) /\ ~NotAnObject(item.bodyJson)

\* the error of the message of an item
MessageError(v) ==
    [text |-> IF v.t # "string" THEN "Field message must be provided as a string"
              ELSE "Field message cannot be empty",
     source |-> "", key |-> MESSAGE, keys |-> <<>>]

\* the terminal error of item i carries the index i
AttributedToItem(i) ==
    /\ promise[i].state = "rejected" => promise[i].error.itemIndex = i
    /\ IsErrorRecord(responses[i]) => responses[i].pairedItem = i

C12_MessageValidation ==
    \A i \in Indexes :
        Started(i) =>
            IF BlankOrNotString(MessageGiven(ItemAt(i)))
            THEN /\ requests[i].state = "none"
                 /\ Failed(i)
                 /\ FailureMessage(i).text # "request failed"
                 /\ AttributedToItem(i)
                 /\ MessageIsLookedAt(ItemAt(i)) =>
                        FailureMessage(i) = MessageError(MessageGiven(ItemAt(i)))
            ELSE requests[i].state # "none" =>
                    Get(requests[i].body, MESSAGE) = Str(trim(MessageGiven(ItemAt(i)).s))

\* in a batch of two, item 0 was sent with its padded message trimmed and
\* item 1, a raw body without a message, was rejected with the error of the
\* message, carrying the index 1
C12_Witness ==
    /\ Len(items) = 2
    /\ MessageGiven(ItemAt(0)) = Str(<<" ", "o", "k", " ">>)
    /\ requests[0].state # "none"
    /\ Get(requests[0].body, MESSAGE) = Str(<<"o", "k">>)
    /\ ItemAt(1).jsonParameters
    /\ MessageGiven(ItemAt(1)) = Undefined
    /\ promise[1].state = "rejected"
    /\ promise[1].error.itemIndex = 1
    /\ FailureMessage(1).key = MESSAGE

(***************************************************************************)
(* C13 - Message length bound.  Every payload sent has a `message` whose   *)
(* length after trimming is between 1 and 5000 characters: an item whose    *)
(* trimmed message is longer than 5000 characters is not sent.              *)
(* ensureMessage tests the type and the emptiness of the message and never  *)
(* its length, so a message of 5001 characters is sent.                     *)
(***************************************************************************)
C13_MessageLengthBound ==
    \A i \in Indexes :
        requests[i].state # "none" =>
            /\ Len(Get(requests[i].body, MESSAGE).s) >= 1
            /\ Len(Get(requests[i].body, MESSAGE).s) <= MaxMessageLength

(***************************************************************************)
(* C14 - Timeout clamping.  For every configured timeoutSeconds, the        *)
(* timeout given to each network call lies between 5000 ms and 300000 ms,   *)
(* and is 30000 ms when the parameter is not set.                           *)
(* The code takes Math.max(5000, ...) and no minimum with 300000: a         *)
(* timeoutSeconds of 301 gives the call a timeout of 301000 ms.             *)
(***************************************************************************)
C14_TimeoutClamping ==
    \A i \in Indexes :
        requests[i].state # "none" =>
            /\ requests[i].timeout >= 5000
            /\ requests[i].timeout <= 300000
            /\ params.timeoutSeconds = NotSet => requests[i].timeout = 30000

(***************************************************************************)
(* C15 - Concurrency-limit clamping.  For every configured maxConcurrency  *)
(* (0, negative, fractional and above 50 included), the limit the admission *)
(* loop uses is an integer between 1 and 50, and is 4 when the parameter is *)
(* not set; the outstanding set never holds more tasks than that limit.     *)
(***************************************************************************)
C15_ConcurrencyLimitClamping ==
    /\ Limit \in 1..50
    /\ params.maxConcurrency = NotSet => Limit = 4
    /\ Len(executing) <= Limit

\* with maxConcurrency -1/2 the limit is 1: the admission loop has started
\* the first of two items and waits for it before it starts the second
C15_Witness ==
    /\ params.maxConcurrency = Number(-1, 2)
    /\ Limit = 1
    /\ Len(items) = 2
    /\ pc = "awaitRace"
    /\ executing = <<0>>
    /\ InFlight = {0}

(***************************************************************************)
(* Variants of an item: an entry of its field source removed or given       *)
(* another value.                                                           *)
(***************************************************************************)
\* the entries the fields of the item are read from: the additionalFields
\* of a structured item, the body of a raw item
FieldSource(item) ==
    IF item.jsonParameters THEN ObjectOf(item.bodyJson) ELSE item.additionalFields

WithFieldSource(item, entries) ==
    IF item.jsonParameters THEN [item EXCEPT !.bodyJson = Obj(entries)]
    ELSE [item EXCEPT !.additionalFields = entries]

\* the item without the n-th entry of its field source
WithoutEntry(item, n) ==
    WithFieldSource(item, SubSeq(FieldSource(item), 1, n - 1) \o
                          SubSeq(FieldSource(item), n + 1, Len(FieldSource(item))))

\* the item with the n-th entry of its field source given the value v
WithEntryValue(item, n, v) ==
    WithFieldSource(item, [FieldSource(item) EXCEPT ![n].v = v])

\* the positions of the optional fields given as '' or null
EmptyOptionalPositions(item) ==
    {n \in 1..Len(FieldSource(item)) :
        /\ NotProvided(FieldSource(item)[n].v)
        /\ IsOptionalKey(FieldSource(item)[n].k)}

(***************************************************************************)
(* C16 - Empty and omitted collapse.  In both input modes and for every    *)
(* optional field, string-typed or boolean-typed: an item that gives the    *)
(* field as the empty string or as null is sent exactly when the item       *)
(* without the field is, with the same payload, which is also the payload   *)
(* of the item with the other empty value; the field is absent from the     *)
(* payload (no other entry of the item names it).                           *)
(***************************************************************************)
C16_EmptyOmittedCollapse ==
    \A i \in Indexes :
        Started(i) =>
            \A n \in EmptyOptionalPositions(ItemAt(i)) :
                LET omitted == buildBody(WithoutEntry(ItemAt(i), n), i)
                    asNull == buildBody(WithEntryValue(ItemAt(i), n, Null), i)
                    asEmpty == buildBody(WithEntryValue(ItemAt(i), n, Str(<<>>)), i)
                IN /\ (requests[i].state # "none") = omitted.ok
                   /\ asNull.ok = omitted.ok
                   /\ asEmpty.ok = omitted.ok
                   /\ requests[i].state # "none" =>
                         /\ requests[i].body = omitted.value
                         /\ asNull.value = omitted.value
                         /\ asEmpty.value = omitted.value
                         /\ \A f \in CanonicalNames(FieldSource(ItemAt(i))[n].k) :
                                Providers(FieldTable(ItemAt(i)), f) = {} =>
                                   Get(requests[i].body, f) = Undefined

\* a structured item gives the boolean field as '' and a string field as
\* null, with a message: it was sent with the message alone
C16_Witness ==
    /\ ~ItemAt(0).jsonParameters
    /\ Len(ItemAt(0).additionalFields) = 2
    /\ Get(ItemAt(0).additionalFields, OVERRIDE_PARSING) = Str(<<>>)
    /\ Get(ItemAt(0).additionalFields, IP) = Null
    /\ requests[0].state # "none"
    /\ requests[0].body = <<Entry(MESSAGE, Str(<<"h">>))>>

(***************************************************************************)
(* The entries of the Extra Fields object given as '' or null.             *)
(***************************************************************************)
EmptyExtensionPositions(item) ==
    {n \in 1..Len(ExtensionObject(item)) : NotProvided(ExtensionObject(item)[n].v)}

\* the item without the n-th entry of its Extra Fields object
WithoutExtensionEntry(item, n) ==
    [item EXCEPT !.additionalFields[ExtensionPosition(item)].v =
        Obj(SubSeq(ExtensionObject(item), 1, n - 1) \o
            SubSeq(ExtensionObject(item), n + 1, Len(ExtensionObject(item))))]

\* item i, which has been started, ended as the item `other` does: sent
\* with the same payload, or failed with the same error
SameOutcomeAs(i, other) ==
    IF requests[i].state # "none"
    THEN buildBody(other, i).ok /\ requests[i].body = buildBody(other, i).value
    ELSE /\ ~buildBody(other, i).ok
         /\ Failed(i)
         /\ FailureMessage(i) = MessageOf(buildBody(other, i).error)

(***************************************************************************)
(* C17 - Empty and null extension entries.  As claimed: for every key of    *)
(* the Extra Fields object, an entry whose value is the empty string or     *)
(* null gives the item the same outcome (same payload or same error) as if  *)
(* the entry were absent, and never appears in the payload.                 *)
(***************************************************************************)
C17_EmptyExtensionEntries ==
    \A i \in Indexes :
        Started(i) =>
            \A n \in EmptyExtensionPositions(ItemAt(i)) :
                /\ SameOutcomeAs(i, WithoutExtensionEntry(ItemAt(i), n))
                /\ requests[i].state # "none" =>
                       Get(requests[i].body, ExtensionObject(ItemAt(i))[n].k) = Undefined

(***************************************************************************)
(* C17, amended - for every key of the Extra Fields object that is not      *)
(* reserved, an entry whose value is the empty string or null gives the     *)
(* item the same outcome (same payload or same error) as if the entry were  *)
(* absent; an entry whose key is reserved fails the item whatever its       *)
(* value, the empty string and null included; in both cases the entry never *)
(* appears in the payload.                                                  *)
(***************************************************************************)
C17_EmptyExtensionEntriesAmended ==
    \A i \in Indexes :
        Started(i) =>
            \A n \in EmptyExtensionPositions(ItemAt(i)) :
                /\ IF IsReservedKey(ExtensionObject(ItemAt(i))[n].k)
                   THEN requests[i].state = "none" /\ Failed(i)
                   ELSE SameOutcomeAs(i, WithoutExtensionEntry(ItemAt(i), n))
                /\ requests[i].state # "none" =>
                       Get(requests[i].body, ExtensionObject(ItemAt(i))[n].k) = Undefined

\* an Extra Fields object gives a key that is not reserved as '' and another
\* one a value: the item was sent with the second entry only
C17_Witness ==
    /\ ExtensionObject(ItemAt(0)) =
          <<Entry(NOTE, Str(<<>>)), Entry(MESSAGE_CAPITAL, Str(<<"v">>))>>
    /\ requests[0].state # "none"
    /\ requests[0].body =
          <<Entry(MESSAGE, Str(<<"h">>)), Entry(MESSAGE_CAPITAL, Str(<<"v">>))>>

(***************************************************************************)
(* The entries of the field source that give a value to an optional field. *)
(***************************************************************************)
\* the canonical name the key stands for
CanonicalName(key) == CHOOSE f \in CanonicalNames(key) : TRUE

\* the n-th entry gives a value and no other entry names the same field
SoleProvider(item, n) ==
    /\ ~NotProvided(FieldSource(item)[n].v)
    /\ \A m \in 1..Len(FieldSource(item)) :
          m # n => CanonicalName(FieldSource(item)[m].k) # CanonicalName(FieldSource(item)[n].k)

\* the positions where the boolean-typed field is given a value
BooleanFieldPositions(item) ==
    {n \in 1..Len(FieldSource(item)) :
        /\ CanonicalName(FieldSource(item)[n].k) = OVERRIDE_PARSING
        /\ SoleProvider(item, n)}

\* the positions where a string-typed optional field is given a value
StringFieldPositions(item) ==
    {n \in 1..Len(FieldSource(item)) :
        /\ CanonicalName(FieldSource(item)[n].k) \in OPTIONAL_FIELDS \ {OVERRIDE_PARSING}
        /\ SoleProvider(item, n)}

\* item i has failed with a validation error; the error names the n-th
\* entry's key and has one of the texts when the rest of the item is valid
FailsNamingField(i, n, texts) ==
    /\ requests[i].state = "none"
    /\ Failed(i)
    /\ FailureMessage(i).text # "request failed"
    /\ buildBody(WithoutEntry(ItemAt(i), n), i).ok =>
          /\ FailureMessage(i).key = FieldSource(ItemAt(i))[n].k
          /\ FailureMessage(i).text \in texts

\* item i is sent exactly when it would be without its n-th entry, and then
\* with the value v under the field that entry names
SentWithField(i, n, v) ==
    /\ (requests[i].state # "none") = buildBody(WithoutEntry(ItemAt(i), n), i).ok
    /\ requests[i].state # "none" =>
          Get(requests[i].body, CanonicalName(FieldSource(ItemAt(i))[n].k)) = v

(***************************************************************************)
(* C18 - Boolean-typed optional field.  In both input modes, the boolean    *)
(* field (`override_parsing`) given true or false appears in the payload    *)
(* with exactly that boolean value, the item being sent whenever the rest   *)
(* of it is valid; given any value that is not a boolean and not empty (a   *)
(* string, a number, an array, an object) the item is not sent and fails    *)
(* with a validation error, which names the field when the rest of the item *)
(* is valid.                                                                *)
(***************************************************************************)
C18_BooleanField ==
    \A i \in Indexes :
        Started(i) =>
            \A n \in BooleanFieldPositions(ItemAt(i)) :
                IF FieldSource(ItemAt(i))[n].v.t = "boolean"
                THEN SentWithField(i, n, FieldSource(ItemAt(i))[n].v)
                ELSE FailsNamingField(i, n, {"must be a boolean",
                                             "must be provided as a boolean"})

\* a structured item gives override_parsing as false and ip as a number: it
\* was sent with override_parsing false
C18_Witness ==
    /\ ~ItemAt(0).jsonParameters
    /\ Get(ItemAt(0).additionalFields, OVERRIDE_PARSING) = Bool(FALSE)
    /\ Get(ItemAt(0).additionalFields, IP) = Num(7)
    /\ requests[0].state # "none"
    /\ Get(requests[0].body, OVERRIDE_PARSING) = Bool(FALSE)

(***************************************************************************)
(* C19 - String-typed optional field coercion.  In both input modes, a      *)
(* string-typed optional field given a string, a number or a boolean        *)
(* appears in the payload as its string form (a string unchanged, 7 as      *)
(* "7", true as "true"), the item being sent whenever the rest of it is     *)
(* valid; given an object or an array the item is not sent and fails with   *)
(* a validation error, which names the field when the rest of the item is   *)
(* valid.                                                                   *)
(***************************************************************************)
C19_StringFieldCoercion ==
    \A i \in Indexes :
        Started(i) =>
            \A n \in StringFieldPositions(ItemAt(i)) :
                IF FieldSource(ItemAt(i))[n].v.t \in {"string", "number", "boolean"}
                THEN SentWithField(i, n, StringOf(FieldSource(ItemAt(i))[n].v))
                ELSE FailsNamingField(i, n, {"must be a string or primitive"})

\* a raw body gives ip as the number 7 and an alias of pageUrl as a string:
\* it was sent with ip "7" and pageUrl unchanged
C19_Witness ==
    /\ ItemAt(0).jsonParameters
    /\ Get(FieldSource(ItemAt(0)), IP) = Num(7)
    /\ Get(FieldSource(ItemAt(0)), PAGE_URL_UPPER) = Str(<<"u">>)
    /\ requests[0].state # "none"
    /\ Get(requests[0].body, IP) = Str(<<"7">>)
    /\ Get(requests[0].body, <<"p", "a", "g", "e", "U", "r", "l">>) = Str(<<"u">>)

(***************************************************************************)
(* C20 - Raw JSON allow-listing.  In raw JSON mode only documented fields   *)
(* are accepted: a body that contains an unexpected key (one that is not    *)
(* `message`, an optional-field name or an alias of one) is rejected and    *)
(* nothing is sent for the item.                                            *)
(* buildPayloadFromObject collects such keys in `extras` and copies them    *)
(* into the payload: the body {"message": " h ", "note": [...]} is sent,    *)
(* `note` included.                                                         *)
(***************************************************************************)
C20_RawAllowListing ==
    \A i \in Indexes :
        ( /\ Started(i)
          /\ ItemAt(i).jsonParameters
          /\ \E n \in 1..Len(ObjectOf(ItemAt(i).bodyJson)) :
                ~IsReservedKey(ObjectOf(ItemAt(i).bodyJson)[n].k) ) =>
            requests[i].state = "none" /\ Failed(i)

(***************************************************************************)
(* The scenario of C21: a batch of three items in fail-fast mode, of which  *)
(* the second, and only the second, fails validation.                       *)
(***************************************************************************)
SecondOfThreeFails ==
    /\ ConfigValid
    /\ ~params.continueOnFail
    /\ Len(items) = 3
    /\ ~FailsValidation(ItemAt(0))
    /\ FailsValidation(ItemAt(1))
    /\ ~FailsValidation(ItemAt(2))

\* the call of item i has been issued and has completed
CallCompleted(i) == requests[i].state \in {"fulfilled", "rejected"}

\* execute has thrown the error of the second item, and the calls of the
\* first and of the third item have been issued and have completed
SecondThrownOthersCompleted ==
    /\ Len(items) = 3
    /\ pc = "thrown"
    /\ result.error.itemIndex = 1
    /\ CallCompleted(0)
    /\ CallCompleted(2)

(***************************************************************************)
(* C21 - Fail-fast scenario.  As claimed: for a batch of 3 items in         *)
(* fail-fast mode in which only item 2 fails validation, whatever the       *)
(* concurrency limit in 1..50, the calls of items 1 and 3 are issued and    *)
(* complete, and execute throws one error, the error of item 2.             *)
(***************************************************************************)
C21_FailFastScenario ==
    SecondOfThreeFails => <>[]SecondThrownOthersCompleted

(***************************************************************************)
(* C21, amended - the same for every concurrency limit from 3 to 50, the    *)
(* default 4 included.  (With a limit of 1 or 2 the loop observes the       *)
(* failure of item 2 before it admits item 3, whose call is never issued.)  *)
(***************************************************************************)
C21_FailFastScenarioFromLimit3 ==
    (SecondOfThreeFails /\ Limit >= 3) => <>[]SecondThrownOthersCompleted

\* with the default limit of 4, execute has thrown the error of item 2 and
\* the calls of items 1 and 3 have completed
C21_Witness ==
    /\ SecondOfThreeFails
    /\ params.maxConcurrency = NotSet
    /\ Limit = 4
    /\ SecondThrownOthersCompleted

(***************************************************************************)
(* The record of item i as a function of item i alone: its input, its      *)
(* index and the outcome of its own call.                                   *)
(***************************************************************************)
OwnRecord(item, i, call) ==
    IF call.state = "fulfilled" THEN SuccessRecord(ResponseOf(i), i)
    ELSE IF call.state = "rejected" THEN ErrorRecord(call.error, i)
    ELSE ErrorRecord(buildBody(item, i).error, i)

(***************************************************************************)
(* C22 - Item independence in tolerant mode.  With continue-on-fail        *)
(* enabled, the record in slot i, once written, and the i-th record that    *)
(* execute returns, are the record determined by item i's own input and the *)
(* outcome of item i's own call; the validation failures, transport errors  *)
(* and timeouts of the other items of the batch have no part in it.         *)
(***************************************************************************)
C22_ItemIndependence ==
    (params.continueOnFail /\ ConfigValid) =>
        \A i \in Indexes :
            /\ responses[i] # Undefined =>
                  /\ requests[i].state # "pending"
                  /\ responses[i] = OwnRecord(ItemAt(i), i, requests[i])
            /\ pc = "returned" =>
                  result.data[i + 1] = OwnRecord(ItemAt(i), i, requests[i])

\* a tolerant batch of three returned: the second item failed validation and
\* has an error record, the first and the third have the responses of their
\* own calls
C22_Witness ==
    /\ params.continueOnFail
    /\ pc = "returned"
    /\ Len(items) = 3
    /\ FailsValidation(ItemAt(1))
    /\ IsErrorRecord(result.data[2])
    /\ result.data[1] = SuccessRecord(ResponseOf(0), 0)
    /\ result.data[3] = SuccessRecord(ResponseOf(2), 2)

(***************************************************************************)
(* The shape of an error record.                                            *)
(***************************************************************************)
ErrorRecordKeys == {"message", "description", "httpCode", "cause"}

\* the messages of the model: a text with its interpolated parts, each of
\* them a string
IsMessageString(m) ==
    /\ DOMAIN m = {"text", "source", "key", "keys"}
    /\ m.text \in STRING
    /\ m.source \in STRING
    /\ m.key \in Seq(STRING)
    /\ m.keys \in Seq(STRING)

\* buildErrorPayload extracts something from the error of item i: it is an
\* instance of Error, or a plain object
Extractable(error) ==
    error.type \in {"NodeApiError", "NodeOperationError", "Error"} \/ error.value.t = "object"

\* the error that the catch block of item i caught
CaughtError(i) ==
    IF requests[i].state = "rejected" THEN requests[i].error
    ELSE buildBody(ItemAt(i), i).error

(***************************************************************************)
(* C23 - Error-record shape.  Every error record written in tolerant mode,  *)
(* whatever was caught (a node API or operation error, a plain Error, a     *)
(* plain object, anything else), has a `message` that is a string and no    *)
(* key other than message, description, httpCode and cause; when nothing    *)
(* can be extracted from what was caught the message is "Unknown error".    *)
(***************************************************************************)
C23_ErrorRecordShape ==
    \A i \in Indexes :
        IsErrorRecord(responses[i]) =>
            /\ "message" \in DOMAIN responses[i].json
            /\ IsMessageString(responses[i].json.message)
            /\ DOMAIN responses[i].json \subseteq ErrorRecordKeys
            /\ ~Extractable(CaughtError(i)) =>
                  responses[i].json.message = TextMessage("Unknown error")

\* the error records of a node error with description, httpCode and cause
\* and of a thrown value from which nothing can be extracted have been written
C23_Witness ==
    /\ params.continueOnFail
    /\ \E i \in Indexes :
          /\ IsErrorRecord(responses[i])
          /\ DOMAIN responses[i].json = ErrorRecordKeys
          /\ responses[i].json.cause = "socket hang up"
    /\ \E i \in Indexes :
          /\ IsErrorRecord(responses[i])
          /\ requests[i].state = "rejected"
          /\ ~Extractable(requests[i].error)
          /\ responses[i].json.message.text = "Unknown error"

(***************************************************************************)
(* After a fail-fast abort.                                                 *)
(***************************************************************************)
Aborted == ~params.continueOnFail /\ pc = "thrown"

\* the task of item i has reached its terminal state
Terminal(i) == promise[i].state \in {"fulfilled", "rejected"}

\* this step leaves item i, which was not admitted, as it was: not evaluated,
\* no call issued, no slot written
StaysUnadmitted(i) ==
    /\ promise'[i].state = "unstarted"
    /\ execPromise'[i] = "uncreated"
    /\ requests'[i] = NoRequest
    /\ responses'[i] = Undefined

\* this step does not cancel or roll back the task of item i, which was
\* admitted: its call stays issued (pending, or completed as it was), a
\* terminal state stays, a written slot stays
KeepsAdmitted(i) ==
    /\ promise'[i].state # "unstarted"
    /\ Terminal(i) => promise'[i] = promise[i]
    /\ requests[i].state = "pending" => requests'[i].state # "none"
    /\ requests[i].state \in {"fulfilled", "rejected"} => requests'[i] = requests[i]
    /\ responses[i] # Undefined => responses'[i] = responses[i]

(***************************************************************************)
(* C24 - No cancellation, no admission after abort.  Once execute has       *)
(* thrown in fail-fast mode, an item that had not been admitted is never    *)
(* evaluated and never has a call issued, and a task that had been admitted *)
(* is neither cancelled nor rolled back: every admitted task eventually     *)
(* reaches its own terminal state.                                          *)
(***************************************************************************)
C24_NoCancellationNoAdmissionAfterAbort ==
    /\ [][Aborted => \A i \in Indexes :
                         IF Started(i) THEN KeepsAdmitted(i) ELSE StaysUnadmitted(i)]_vars
    /\ [](Aborted => <>(\A i \in Indexes : Started(i) => Terminal(i)))

\* execute threw the error of item 1 while the call of item 0 was in flight;
\* that call has since completed and written its slot, and item 2 has not
\* been admitted
C24_Witness ==
    /\ Aborted
    /\ Len(items) = 3
    /\ result.error.itemIndex = 1
    /\ settleLog = <<1, 0>>
    /\ IsSuccessRecord(responses[0])
    /\ ~Started(2)
    /\ requests[2] = NoRequest

(***************************************************************************)
(* The task that runs in the step to come: processItem(itemIndex), called   *)
(* by the loop and running up to its await, or the task that resumes after  *)
(* its await; -1 when no task runs.                                         *)
(***************************************************************************)
RunningTask ==
    IF pc = "loop" THEN itemIndex
    ELSE IF microtasks # <<>> /\ Head(microtasks).job = "continuation"
    THEN Head(microtasks).item
    ELSE -1

(***************************************************************************)
(* C25 - Write-once result slots.  A step that changes slot i of the result *)
(* array is a step of the task of item i, finds the slot empty and writes   *)
(* the record of item i into it (a success record or, in tolerant mode, an  *)
(* error record): a slot is written at most once, by its own task, and, one *)
(* task running per step, no two tasks write the same slot.                 *)
(***************************************************************************)
C25_WriteOnceSlots ==
    [][\A i \in Indexes :
          responses'[i] # responses[i] =>
              /\ responses[i] = Undefined
              /\ RunningTask = i
              /\ responses'[i].pairedItem = i
              /\ IsSuccessRecord(responses'[i]) \/
                    (params.continueOnFail /\ IsErrorRecord(responses'[i]))]_vars

\* the three slots of a tolerant batch have been written, out of order, with
\* a success record and an error record among them
C25_Witness ==
    /\ params.continueOnFail
    /\ Len(items) = 3
    /\ settleLog = <<1, 2, 0>>
    /\ \A i \in Indexes : responses[i] # Undefined /\ responses[i].pairedItem = i
    /\ IsSuccessRecord(responses[0])
    /\ IsErrorRecord(responses[2])

(***************************************************************************)
(* The two input modes on the same data.                                    *)
(***************************************************************************)
\* a structured item whose discrete fields are given under canonical names
\* and whose Extra Fields, when given, is an object without reserved keys
CanonicalStructured(item) ==
    /\ ~item.jsonParameters
    /\ \A n \in 1..Len(item.additionalFields) :
          LET e == item.additionalFields[n]
          IN IF e.k = EXTRA_FIELDS_JSON
             THEN NotProvided(e.v) \/ ~ExtensionFails(e.v)
             ELSE e.k \in OPTIONAL_FIELDS

RECURSIVE FlatEntries(_)
\* the discrete fields and the entries of the Extra Fields object, side by
\* side in one object
FlatEntries(additionalFields) ==
    IF additionalFields = <<>> THEN <<>>
    ELSE LET e == Head(additionalFields)
         IN (IF e.k # EXTRA_FIELDS_JSON THEN <<e>>
             ELSE IF NotProvided(e.v) THEN <<>>
             ELSE ObjectOf(e.v)) \o FlatEntries(Tail(additionalFields))

\* the raw item whose body is the single flat object made of the message,
\* the discrete fields and the extension entries of the structured item
AsRawItem(item) ==
    [item EXCEPT !.jsonParameters = TRUE,
                 !.bodyJson = Obj((IF item.message = Undefined THEN <<>>
                                   ELSE <<Entry(MESSAGE, item.message)>>) \o
                                  FlatEntries(item.additionalFields)),
                 !.message = Str(<<>>),
                 !.additionalFields = <<>>]

\* the members of an object, whatever their order
Members(o) == {o[n] : n \in 1..Len(o)}

C27_SequentialAtLimitOne ==
    Limit = 1 =>
        /\ Cardinality(InFlight) <= 1
        /\ Cardinality(Unsettled) <= 1
        /\ \A i \in Indexes :
              ~Started(i) => /\ requests[i] = NoRequest
                             /\ responses[i] = Undefined
        /\ \A i, j \in Indexes :
              (i < j /\ Started(j)) => /\ Terminal(i)
                                       /\ execPromise[i] \in {"fulfilled", "rejected"}
        /\ \A n \in 1..Len(settleLog) : settleLog[n] = n - 1

\* with a limit of 1 the call of the second of three items is in flight: the
\* first item has settled, the third has not been started
C27_Witness ==
    /\ Limit = 1
    /\ Len(items) = 3
    /\ requests[0].state = "fulfilled"
    /\ Terminal(0)
    /\ InFlight = {1}
    /\ ~Started(2)

(***************************************************************************)
(* The URL of a call, stated on the credentials and the endpoint parameter. *)
(***************************************************************************)
\* `stripped` is `url` without its trailing slashes, all of them
IsStrippedOf(stripped, url) ==
    /\ Len(stripped) <= Len(url)
    /\ stripped = SubSeq(url, 1, Len(stripped))
    /\ stripped = <<>> \/ stripped[Len(stripped)] # "/"
    /\ \A n \in (Len(stripped) + 1)..Len(url) : url[n] = "/"

\* `path` is the path of the endpoint parameter
IsPathOf(path, endpoint) ==
    /\ path # <<>>
    /\ path[1] = "/"
    /\ endpoint = <<>> => path = DEFAULT_ENDPOINT
    /\ (endpoint # <<>> /\ endpoint[1] = "/") => path = endpoint
    /\ (endpoint # <<>> /\ endpoint[1] # "/") => path = <<"/">> \o endpoint

(***************************************************************************)
(* C28 - Request URL construction.  The URL of every call is the base URL   *)
(* of the credentials with all its trailing slashes stripped, followed by a *)
(* path that begins with `/`: the endpoint parameter, with a slash put in   *)
(* front of it when it does not begin with one, or `/v1/chatads/messages`   *)
(* when the endpoint parameter is empty.                                    *)
(***************************************************************************)
C28_RequestUrl ==
    \A i \in Indexes :
        requests[i].state # "none" =>
            \E n \in 0..Len(requests[i].url) :
                /\ IsStrippedOf(SubSeq(requests[i].url, 1, n), credentials.baseUrl.s)
                /\ IsPathOf(SubSeq(requests[i].url, n + 1, Len(requests[i].url)),
                            ItemAt(i).endpoint)
                /\ DEFAULT_ENDPOINT = <<"/", "v", "1", "/", "c", "h", "a", "t", "a", "d", "s",
                                        "/", "m", "e", "s", "s", "a", "g", "e", "s">>

\* calls have been issued to h/v for the base URL h// and the endpoint v, and
\* to the default path for the empty endpoint
C28_Witness ==
    /\ credentials.baseUrl = Str(<<"h", "/", "/">>)
    /\ Len(items) = 2
    /\ ItemAt(0).endpoint = <<"v">>
    /\ requests[0].url = <<"h", "/", "v">>
    /\ ItemAt(1).endpoint = <<>>
    /\ requests[1].url = <<"h">> \o DEFAULT_ENDPOINT

(***************************************************************************)
(* The window is full, the loop is suspended before item k + 1, and one of  *)
(* the outstanding tasks has completed with its record (a success record,   *)
(* or an error record in tolerant mode).                                    *)
(***************************************************************************)
Refilling(k) ==
    /\ pc = "awaitRace"
    /\ itemIndex = k
    /\ k + 1 < Len(items)
    /\ \E i \in awaited.members : promise[i].state = "fulfilled"

\* item k has been admitted
Admitted(k) == k < Len(items) /\ Started(k)

(***************************************************************************)
(* C29 - Window refill on any completion.  When the outstanding set has     *)
(* reached the limit and items remain, the completion of any one            *)
(* outstanding task (with a success or an error record) makes the loop       *)
(* resume and admit the next item, and it does so at once: no other call    *)
(* completes, and none has to, between that completion and the admission.   *)
(* The loop waits neither for the oldest nor for all the outstanding tasks. *)
(***************************************************************************)
C29_WindowRefill ==
    /\ [][(\E k \in 0..(MaxItems - 2) : Refilling(k)) => requests' = requests]_vars
    /\ \A k \in 0..(MaxItems - 2) : [](Refilling(k) => <>Admitted(k + 1))

\* with a limit of 2, the third item has been admitted on the completion of
\* the second while the call of the first, the oldest, is still in flight
C29_Witness ==
    /\ Limit = 2
    /\ Len(items) = 3
    /\ requests[0].state = "pending"
    /\ requests[1].state = "fulfilled"
    /\ IsSuccessRecord(responses[1])
    /\ Started(2)
    /\ requests[2].state = "pending"

(***************************************************************************)
(* The barrier before the aggregation.                                      *)
(***************************************************************************)
\* every item of the batch has been admitted and its task has reached a
\* terminal state: no call is in flight, nothing is outstanding
AllTerminal ==
    /\ itemIndex = Len(items)
    /\ executing = <<>>
    /\ \A i \in Indexes :
          /\ Started(i)
          /\ Terminal(i)
          /\ requests[i].state # "pending"
          /\ execPromise[i] \in {"fulfilled", "rejected"}

\* this step is the one in which execute reads the result array and returns
ReturnsNow == pc # "returned" /\ pc' = "returned"

(***************************************************************************)
(* C30 - Aggregation after the barrier.  Whenever execute returns normally, *)
(* every one of the N item tasks has been admitted and has reached a        *)
(* terminal state before the result array is read: the step that reads it   *)
(* is taken in a state where no task is in flight, what it returns is made  *)
(* of the slots as they are in that state, and no slot changes afterwards.  *)
(***************************************************************************)
C30_AggregationAfterBarrier ==
    /\ [][ReturnsNow => /\ AllTerminal
                        /\ result'.data = returnData(responses)
                        /\ responses' = responses]_vars
    /\ [](pc = "returned" => AllTerminal /\ result.data = returnData(responses))

\* execute has returned the records of a batch of three whose calls, two at
\* a time, completed out of order
C30_Witness ==
    /\ pc = "returned"
    /\ Len(items) = 3
    /\ Limit = 2
    /\ settleLog = <<1, 2, 0>>
    /\ Len(result.data) = 3

(***************************************************************************)
(* C31 - Admission order.  The tasks are started in strictly increasing    *)
(* index order: the step that starts the task of item j is the iteration j  *)
(* of the loop and finds the task of every item before j started, so that   *)
(* in every state, for i < j, the validation of item j has not run and its  *)
(* call has not been issued unless the task of item i has been started,     *)
(* whatever the order in which the tasks complete.                          *)
(***************************************************************************)
C31_AdmissionOrder ==
    /\ [][\A j \in Indexes :
              (promise[j].state = "unstarted" /\ promise'[j].state # "unstarted") =>
                  /\ itemIndex = j
                  /\ \A i \in Indexes : i < j => promise[i].state # "unstarted"
                  /\ \A i \in Indexes : i > j => promise'[i].state = "unstarted"]_vars
    /\ [](\A i, j \in Indexes :
             (i < j /\ (Started(j) \/ requests[j] # NoRequest \/ responses[j] # Undefined))
                 => Started(i))

\* the three items of a batch have been started, and they completed in the
\* reverse order, the call of the first still in flight
C31_Witness ==
    /\ Len(items) = 3
    /\ \A i \in Indexes : Started(i)
    /\ settleLog = <<2, 1>>
    /\ requests[0].state = "pending"

(***************************************************************************)
(* Suspension of execute.                                                   *)
(***************************************************************************)
Suspended == pc \in {"awaitRace", "awaitAll"}

Finished == pc \in {"returned", "thrown"}

\* the promise execute is suspended on can still settle: it is pending and
\* one of the promises it was made of is still to settle, or it has settled
\* and the resumption of execute is queued
CanWakeUp ==
    IF awaited.state = "pending"
    THEN \E i \in awaited.members : execPromise[i] = "pending"
    ELSE \E n \in 1..Len(microtasks) : microtasks[n].job = "resume"

(***************************************************************************)
(* C32 - Termination without deadlock.  Every network call that is issued   *)
(* settling eventually, execute eventually returns or throws, for every     *)
(* batch size, every limit and both failure modes.  The loop never suspends *)
(* on an empty outstanding set (the race it awaits has members) and never   *)
(* waits for a task that has left the set: while execute is suspended, the  *)
(* promise it awaits can still settle.                                      *)
(***************************************************************************)
C32_Termination ==
    /\ <>[]Finished
    /\ [](pc = "awaitRace" => awaited.kind = "race" /\ awaited.members # {})
    /\ [](Suspended => CanWakeUp)

\* a tolerant batch of three has returned, one call at a time, execute
\* having been suspended once for each item
C32_Witness ==
    /\ pc = "returned"
    /\ params.continueOnFail
    /\ Limit = 1
    /\ Len(items) = 3
    /\ settleLog = <<0, 1, 2>>
    /\ \E i \in Indexes : requests[i].state = "rejected"

(***************************************************************************)
(* The raw body of an item, when it is an object.                           *)
(***************************************************************************)
HasRawObject(item) ==
    /\ item.operation = "analyze"
    /\ item.jsonParameters
    /\ ~MalformedJson(item.bodyJson)
    /\ ~NotAnObject(item.bodyJson)

\* the positions of the raw body that name an optional field (under its
\* canonical name or an alias in any letter case) and give it a value
NamedFieldPositions(item) ==
    {n \in 1..Len(ObjectOf(item.bodyJson)) :
        /\ ~NotProvided(ObjectOf(item.bodyJson)[n].v)
        /\ IsOptionalKey(ObjectOf(item.bodyJson)[n].k)}

(***************************************************************************)
(* C33 - Raw mode has no reserved-key conflicts.  In raw JSON mode a key    *)
(* that is the canonical name of an optional field, or an alias of one in   *)
(* any letter case, is consumed as that field: when the item is sent the    *)
(* payload holds the field under its canonical name.  The reserved-key      *)
(* check at the end of buildPayloadFromObject never fails: no raw item      *)
(* fails with the reserved-keys error, whatever the input object.           *)
(***************************************************************************)
C33_RawModeNoReservedConflicts ==
    \A i \in Indexes :
        (Started(i) /\ HasRawObject(ItemAt(i))) =>
            /\ Failed(i) => FailureMessage(i).text # "contains reserved keys"
            /\ requests[i].state # "none" =>
                  \A n \in NamedFieldPositions(ItemAt(i)) :
                      Get(requests[i].body,
                          CanonicalName(ObjectOf(ItemAt(i).bodyJson)[n].k)) # Undefined

\* raw bodies with the alias PageURL and the key IP, which is no alias, and
\* with the key Message have been sent: pageUrl is in the payload, IP and
\* Message have passed as they are
C33_Witness ==
    /\ Len(items) = 1
    /\ ItemAt(0).jsonParameters
    /\ ItemAt(0).bodyJson =
          Obj(<<Entry(MESSAGE, Str(<<" ", "h", " ">>)), Entry(PAGE_URL_MIXED, Str(<<"x">>)),
                Entry(IP_UPPER, Num(7))>>)
    /\ requests[0].state # "none"
    /\ Get(requests[0].body, PAGE_URL) = Str(<<"x">>)
    /\ Get(requests[0].body, IP_UPPER) = Num(7)

(***************************************************************************)
(* The object that structured mode has validated and hands to               *)
(* buildPayloadFromObject: the trimmed message, the discrete fields under   *)
(* their canonical names and the entries of Extra Fields.                   *)
(***************************************************************************)
Constructed(item, i) ==
    constructLoop(item.additionalFields, 1,
                  <<Entry(MESSAGE, Str(ensureMessage(item.message, i).value))>>, i).value

\* the payload has an optional field, and an entry that is not one
HasFieldAndExtra(body) ==
    /\ \E n \in 1..Len(body) : body[n].k \in OPTIONAL_FIELDS
    /\ \E n \in 1..Len(body) : ~IsReservedKey(body[n].k)

(***************************************************************************)
(* C34 - Payload builder idempotence.  Whenever buildPayloadFromObject has  *)
(* succeeded (the item was sent), buildPayloadFromObject applied to the     *)
(* payload it returned succeeds and returns that same payload.  In          *)
(* structured mode the pass over the object built from the validated        *)
(* fields changes none of them: the message and every optional field have   *)
(* in the payload the value they have in that object, and the payload has   *)
(* no entry that the object does not have.                                  *)
(***************************************************************************)
C34_BuilderIdempotence ==
    \A i \in Indexes :
        requests[i].state # "none" =>
            /\ buildPayloadFromObject(requests[i].body, "Body JSON", i) =
                   Return(requests[i].body)
            /\ ~ItemAt(i).jsonParameters =>
                  /\ \A key \in {MESSAGE} \cup OPTIONAL_FIELDS :
                        Get(requests[i].body, key) = Get(Constructed(ItemAt(i), i), key)
                  /\ Members(requests[i].body) \subseteq Members(Constructed(ItemAt(i), i))

\* a raw body that names a field by an alias and has a key that is no field
\* has been sent: the first pass has renamed the key, the pass over the
\* payload finds nothing to change
C34_Witness ==
    /\ Len(items) = 1
    /\ ItemAt(0).jsonParameters
    /\ requests[0].state # "none"
    /\ HasFieldAndExtra(requests[0].body)
    /\ \E n \in 1..Len(requests[0].body) :
          Get(ObjectOf(ItemAt(0).bodyJson), requests[0].body[n].k) = Undefined

(***************************************************************************)
(* Alias spellings: the keys that name an optional field through the alias  *)
(* table without being its canonical name.                                  *)
(***************************************************************************)
IsAliasSpelling(key) == IsOptionalKey(key) /\ key \notin OPTIONAL_FIELDS

\* the positions of the field source (raw body, or discrete fields) that
\* give a value under an alias spelling
AliasPositions(item) ==
    {n \in 1..Len(FieldSource(item)) :
        /\ ~NotProvided(FieldSource(item)[n].v)
        /\ IsAliasSpelling(FieldSource(item)[n].k)}

\* no two entries of the object have the same key
SingleEntries(o) == \A n, m \in 1..Len(o) : o[n].k = o[m].k => n = m

\* the payloads sent hold alias spellings under canonical names only, and
\* one entry for a name
CanonicalNamesOnly(i) ==
    /\ \A n \in 1..Len(requests[i].body) : ~IsAliasSpelling(requests[i].body[n].k)
    /\ \A n \in AliasPositions(ItemAt(i)) :
          Get(requests[i].body, CanonicalName(FieldSource(ItemAt(i))[n].k)) # Undefined
    /\ SingleEntries(requests[i].body)

\* the spellings the claim gives as examples of alias spellings
ExampleSpellings == {PAGE_URL_SNAKE, PAGE_URL_MIXED, MESSAGEANALYSIS}

============================================================================
